---- MODULE Spec2Model ----
(***************************************************************************)
(* covenant-cli: validation of a covenant deployment configuration.        *)
(*                                                                         *)
(* The module models one run of the `validate` command (src/commands.rs),  *)
(* the result accumulator CovenantValidationContext (validations/mod.rs),  *)
(* the IBC path lookup and channel resolver (utils/path.rs and             *)
(* validations/two_party_pol_covenant.rs), the party-config checks and the *)
(* share checks of the two POL validators.                                 *)
(*                                                                         *)
(* Strings are TLA+ strings: format!("{}: {}", a, b) is a \o ": " \o b.    *)
(* 128-bit amounts are naturals written as little-endian sequences of      *)
(* base-10^4 limbs (BigNat), so that 10^18-scaled values keep their width. *)
(***************************************************************************)
EXTENDS Integers, Sequences, FiniteSets, TLC

VARIABLES
    pc,      \* position of the run, or of the function under check
    ctx,     \* the CovenantValidationContext of the run
    msg,     \* fields of the instantiation payload read so far
    trace,   \* history: the records written, in write order; in a run of the
             \* command one entry per step (step, outcome, records added)
    report,  \* rows printed by render_markdown_table, <<>> before rendering
    result,  \* outcome of the command: "running", "ok", "err" or "panic"
    lookup,  \* history: the collaborator lookups made, with their responses
    args,    \* arguments of the function under check; in a run of the
             \* command the contract type read from the metadata
    ret      \* its return value

vars == <<pc, ctx, msg, trace, report, result, lookup, args, ret>>

(***************************************************************************)
(* Program constants                                                       *)
(***************************************************************************)
NEUTRON_CHAIN_NAME == "neutron"
STRIDE_CHAIN_NAME == "stride"
TRANSFER_PORT_ID == "transfer"
DEFAULT_SINGLE_SIDE_LP_LIMIT_PCT == 10

(***************************************************************************)
(* Result accumulator (validations/mod.rs)                                 *)
(*                                                                         *)
(* checks and errors are HashMap<&str, Vec<String>>: functions from the    *)
(* keys present to non-empty sequences of messages.                        *)
(***************************************************************************)
EmptyMap == <<>>

\* HashMap::entry(key).or_default().push(m)
Push(map, key, m) ==
    IF key \in DOMAIN map
    THEN [map EXCEPT ![key] = Append(@, m)]
    ELSE map @@ (key :> <<m>>)

\* format!("{}: {}", field, message)
FieldMessage(field, message) == field \o ": " \o message

PushOverwrite(map, key, m) == (key :> <<m>>) @@ map

valid(c, key, message) ==
    [c EXCEPT !.checks = Push(@, key, message)]

valid_field_overwrite(c, key, field, message) ==
    [c EXCEPT !.checks = PushOverwrite(@, key, FieldMessage(field, message))]

valid_field(c, key, field, message) ==
    [c EXCEPT !.checks = Push(@, key, FieldMessage(field, message))]

invalid(c, key, message) ==
    [c EXCEPT !.errors = Push(@, key, message)]

invalid_field(c, key, field, message) ==
    [c EXCEPT !.errors = Push(@, key, FieldMessage(field, message))]

\* ctx.has_errors(): some error record exists
has_errors(c) == DOMAIN c.errors # {}

\* CovenantValidationContext::default()
DefaultContext ==
    [ party_a_chain_name |-> "",
      party_b_chain_name |-> "",
      party_a_channel_uses_wasm_port |-> FALSE,
      ls_provider |-> "stride",
      single_side_lp_limit_pct |-> 0,
      checks |-> EmptyMap,
      errors |-> EmptyMap ]

\* macro verify_equals!
verify_equals(c, key, field, expected, actual, what) ==
    IF actual = expected
    THEN valid_field(c, key, field, "verified")
    ELSE invalid_field(c, key, field,
            "invalid " \o what \o ": expected " \o expected \o " | actual " \o actual)

\* macro required_or_ignored!
required_or_ignored(c, key, field, value) ==
    IF value = ""
    THEN invalid_field(c, key, field, "required")
    ELSE valid_field(c, key, field, "ignored")

\* Number of messages held by a map
RECURSIVE MapSize(_)
MapSize(map) ==
    IF DOMAIN map = {} THEN 0
    ELSE LET k == CHOOSE k \in DOMAIN map : TRUE
         IN Len(map[k]) + MapSize([j \in DOMAIN map \ {k} |-> map[j]])

(***************************************************************************)
(* SpecAcc: the accumulator under arbitrary sequences of its operations    *)
(***************************************************************************)
MaxRecords == 3

AccKeys == {"covenant", "splits"}
AccFields == {"label", ""}
AccMessages == {"valid", "required"}

InitAcc ==
    /\ pc = "acc"
    /\ ctx = DefaultContext
    /\ msg = <<>>
    /\ trace = <<>>
    /\ report = <<>>
    /\ result = "running"
    /\ lookup = <<>>
    /\ args = [op |-> "none"]
    /\ ret = <<>>

AccRoom == MapSize(ctx.checks) + MapSize(ctx.errors) < MaxRecords

AccValid ==
    /\ AccRoom
    /\ \E key \in AccKeys, message \in AccMessages :
         /\ ctx' = valid(ctx, key, message)
         /\ args' = [op |-> "valid", key |-> key, field |-> "", message |-> message]
    /\ UNCHANGED <<pc, msg, trace, report, result, lookup, ret>>

AccValidField ==
    /\ AccRoom
    /\ \E key \in AccKeys, field \in AccFields, message \in AccMessages :
         /\ ctx' = valid_field(ctx, key, field, message)
         /\ args' = [op |-> "valid_field", key |-> key, field |-> field,
                     message |-> message]
    /\ UNCHANGED <<pc, msg, trace, report, result, lookup, ret>>

AccInvalid ==
    /\ AccRoom
    /\ \E key \in AccKeys, message \in AccMessages :
         /\ ctx' = invalid(ctx, key, message)
         /\ args' = [op |-> "invalid", key |-> key, field |-> "", message |-> message]
    /\ UNCHANGED <<pc, msg, trace, report, result, lookup, ret>>

AccInvalidField ==
    /\ AccRoom
    /\ \E key \in AccKeys, field \in AccFields, message \in AccMessages :
         /\ ctx' = invalid_field(ctx, key, field, message)
         /\ args' = [op |-> "invalid_field", key |-> key, field |-> field,
                     message |-> message]
    /\ UNCHANGED <<pc, msg, trace, report, result, lookup, ret>>

NextAcc == AccValid \/ AccValidField \/ AccInvalid \/ AccInvalidField

SpecAcc == InitAcc /\ [][NextAcc]_vars

\* The list of `key` in `map`, empty when the key is absent
ListOf(map, key) == IF key \in DOMAIN map THEN map[key] ELSE <<>>

\* Every entry of `old` is still in `new`, at the same place of the same key
Preserved(old, new) ==
    \A k \in DOMAIN old :
        /\ k \in DOMAIN new
        /\ Len(new[k]) >= Len(old[k])
        /\ SubSeq(new[k], 1, Len(old[k])) = old[k]

\* C2: each of valid, valid_field, invalid and invalid_field appends exactly
\* one message at the end of the list of its key in its own map (checks for
\* valid*, errors for invalid*; "field: message" for the *_field variants) and
\* leaves every other entry of both maps unchanged and in the same order.
AccStepAppends ==
    LET op == args'
        own == IF op.op \in {"valid", "valid_field"} THEN "checks" ELSE "errors"
        other == IF own = "checks" THEN "errors" ELSE "checks"
        text == IF op.op \in {"valid_field", "invalid_field"}
                THEN op.field \o ": " \o op.message
                ELSE op.message
    IN /\ ctx'[other] = ctx[other]
       /\ DOMAIN ctx'[own] = DOMAIN ctx[own] \cup {op.key}
       /\ ctx'[own][op.key] = Append(ListOf(ctx[own], op.key), text)
       /\ \A k \in DOMAIN ctx[own] \ {op.key} : ctx'[own][k] = ctx[own][k]
       /\ Preserved(ctx.checks, ctx'.checks)
       /\ Preserved(ctx.errors, ctx'.errors)

Thm_C2_AppendOnly == [][AccStepAppends]_vars

\* C2 witness: a key holds two messages, the second appended after the first
\* by a *_field operation, while the other map holds a record too.
Wit_C2_AppendOnly ==
    /\ pc = "acc"
    /\ args.op = "valid_field"
    /\ "covenant" \in DOMAIN ctx.checks
    /\ Len(ctx.checks["covenant"]) = 2
    /\ ctx.checks["covenant"][1] = "valid"
    /\ ctx.checks["covenant"][2] = "label: required"
    /\ DOMAIN ctx.errors # {}

(***************************************************************************)
(* BigNat: naturals beyond TLC's 32-bit integers, as little-endian         *)
(* sequences of base-10^4 limbs without leading zero limbs (0 is <<>>).    *)
(***************************************************************************)
RECURSIVE BigAddC(_, _, _)
BigAddC(a, b, carry) ==
    IF a = <<>> /\ b = <<>>
    THEN (IF carry = 0 THEN <<>> ELSE <<carry>>)
    ELSE LET x == IF a = <<>> THEN 0 ELSE Head(a)
             y == IF b = <<>> THEN 0 ELSE Head(b)
             s == x + y + carry
         IN <<s % 10000>> \o
            BigAddC(IF a = <<>> THEN <<>> ELSE Tail(a),
                    IF b = <<>> THEN <<>> ELSE Tail(b),
                    s \div 10000)

BigAdd(a, b) == BigAddC(a, b, 0)

\* a < b, comparing from the most significant limb
RECURSIVE BigLess(_, _)
BigLess(a, b) ==
    IF Len(a) # Len(b) THEN Len(a) < Len(b)
    ELSE IF a = <<>> THEN FALSE
    ELSE IF a[Len(a)] # b[Len(b)] THEN a[Len(a)] < b[Len(b)]
    ELSE BigLess(SubSeq(a, 1, Len(a) - 1), SubSeq(b, 1, Len(b) - 1))

BigLeq(a, b) == a = b \/ BigLess(a, b)

BigZero == <<>>

\* a without its leading zero limbs
RECURSIVE BigNorm(_)
BigNorm(a) ==
    IF a = <<>> THEN <<>>
    ELSE IF a[Len(a)] = 0 THEN BigNorm(SubSeq(a, 1, Len(a) - 1))
    ELSE a

\* quotient and remainder of the limbs a[1..i] preceded by the remainder rem,
\* for a divisor 0 < d <= 10^4
RECURSIVE BigDivStep(_, _, _, _)
BigDivStep(a, i, rem, d) ==
    IF i = 0 THEN [q |-> <<>>, r |-> rem]
    ELSE LET cur == rem * 10000 + a[i]
             rest == BigDivStep(a, i - 1, cur % d, d)
         IN [q |-> Append(rest.q, cur \div d), r |-> rest.r]

BigDivSmall(a, d) ==
    LET res == BigDivStep(a, Len(a), 0, d)
    IN [q |-> BigNorm(res.q), r |-> res.r]

\* a / 10^n, truncated
RECURSIVE BigDivPow10(_, _)
BigDivPow10(a, n) ==
    IF n = 0 \/ a = <<>> THEN a ELSE BigDivPow10(BigDivSmall(a, 10).q, n - 1)

\* a TLC integer as a BigNat
RECURSIVE BigFromInt(_)
BigFromInt(n) == IF n = 0 THEN <<>> ELSE <<n % 10000>> \o BigFromInt(n \div 10000)

\* 10^18: the atomics of Decimal::one() at scale 18
DecimalOne == <<0, 0, 0, 0, 100>>
\* i64::MAX = 2^63 - 1
I64Max == <<5807, 5477, 368, 3372, 922>>
\* i128::MAX = 2^127 - 1
I128Max == <<5727, 8410, 7158, 7303, 3168, 2317, 469, 8346, 1411, 170>>
\* u128::MAX = 2^128 - 1
U128Max == <<1455, 6821, 4317, 4607, 6337, 4634, 938, 6692, 2823, 340>>

\* u128 -> i64 by try_into(): fails above i64::MAX
FitsI64(a) == BigLeq(a, I64Max)

\* Uint128 + Uint128 of cosmwasm_std: panics when the sum exceeds u128::MAX
U128AddOverflows(a, b) == BigLess(U128Max, BigAdd(a, b))

(***************************************************************************)
(* Step results: st is "ok" (the step returned), "err" (an Err propagated  *)
(* by `?`) or "panic" (an unwrap or an arithmetic panic); c is the context *)
(* as the step left it.                                                    *)
(***************************************************************************)
Ok(c) == [st |-> "ok", c |-> c]
Err(c) == [st |-> "err", c |-> c]
Panic(c) == [st |-> "panic", c |-> c]

\* `text` is one of the messages of `key` in `map`
Has(map, key, text) ==
    /\ key \in DOMAIN map
    /\ \E i \in 1..Len(map[key]) : map[key][i] = text

\* number of messages of `key` in `map` that start with `prefix`
CountPrefix(map, key, prefix) ==
    IF key \notin DOMAIN map THEN 0
    ELSE Cardinality({i \in 1..Len(map[key]) :
            /\ Len(map[key][i]) >= Len(prefix)
            /\ SubSeq(map[key][i], 1, Len(prefix)) = prefix})

(***************************************************************************)
(* Share checks                                                            *)
(***************************************************************************)
\* single-party: one share in [0, 1] (Decimal::new(i64, 18) is never negative
\* for a converted u128)
sp_share_range(c, key, field, share) ==
    IF BigLeq(share, DecimalOne)
    THEN valid_field(c, key, field, "verified")
    ELSE invalid_field(c, key, field, "invalid share: should be between 0 and 1")

sp_share_sum_tolerant(c, key, ls_share, native_share) ==
    IF BigLeq(BigAdd(BigAdd(ls_share, native_share), <<1>>), BigAdd(DecimalOne, <<1>>))
       /\ BigLeq(DecimalOne, BigAdd(BigAdd(ls_share, native_share), <<1>>))
    THEN valid_field(c, key, "ls_share + native_share", "verified")
    ELSE invalid_field(c, key, "ls_share + native_share",
                       "invalid share: should sum up to 1")

\* single-party: ls_share + native_share == Decimal::one()
sp_share_sum(c, key, ls_share, native_share) ==
    IF BigAdd(ls_share, native_share) = DecimalOne
    THEN valid_field(c, key, "ls_share + native_share", "verified")
    ELSE invalid_field(c, key, "ls_share + native_share",
                       "invalid share: should sum up to 1")

\* single-party, the three share records of remote_chain_splitter_config;
\* each conversion to i64 may end the run with an Err
sp_share_checks(c, key, ls_share, native_share) ==
    IF ~FitsI64(ls_share) THEN Err(c)
    ELSE LET c1 == sp_share_range(c, key, "ls_share", ls_share)
         IN IF ~FitsI64(native_share) THEN Err(c1)
            ELSE Ok(sp_share_sum(sp_share_range(c1, key, "native_share", native_share),
                                 key, ls_share, native_share))

\* two-party: party_a_share + party_b_share == Decimal::one()
tp_party_shares(c, key, party_a_share, party_b_share) ==
    IF U128AddOverflows(party_a_share, party_b_share) THEN Panic(c)
    ELSE IF BigAdd(party_a_share, party_b_share) = DecimalOne
    THEN Ok(valid_field(valid_field(c, key, "party_a_share", "verified"),
                        key, "party_b_share", "verified"))
    ELSE Ok(invalid_field(
                invalid_field(c, key, "party_b_share",
                              "invalid share: sum of shares should be 1.0"),
                key, "party_b_share", "invalid share: sum of shares should be 1.0"))

(***************************************************************************)
(* SpecShare: the share checks on 10^18-scaled values                      *)
(***************************************************************************)
\* 0, 0.35, 0.4, 0.6, 0.649999999999999999, 0.65, 0.650000000000000001, 1.0,
\* i64::MAX, i64::MAX + 1, 10.0 and u128::MAX atomics
ShareValues ==
    { BigZero, <<0, 0, 0, 0, 35>>, <<0, 0, 0, 0, 40>>, <<0, 0, 0, 0, 60>>,
      <<9999, 9999, 9999, 9999, 64>>, <<0, 0, 0, 0, 65>>, <<1, 0, 0, 0, 65>>,
      DecimalOne, I64Max, <<5808, 5477, 368, 3372, 922>>, <<0, 0, 0, 0, 1000>>,
      U128Max }

InitShare ==
    /\ pc = "call"
    /\ ctx = DefaultContext
    /\ msg = <<>>
    /\ trace = <<>>
    /\ report = <<>>
    /\ result = "running"
    /\ lookup = <<>>
    /\ \E f \in {"single", "two"}, a \in ShareValues, b \in ShareValues :
         args = [fn |-> f, a |-> a, b |-> b]
    /\ ret = "none"

SingleShares ==
    /\ pc = "call"
    /\ args.fn = "single"
    /\ LET r == sp_share_checks(ctx, "remote_chain_splitter_config", args.a, args.b)
       IN /\ ctx' = r.c
          /\ ret' = r.st
    /\ pc' = "returned"
    /\ UNCHANGED <<msg, trace, report, result, lookup, args>>

TwoPartyShares ==
    /\ pc = "call"
    /\ args.fn = "two"
    /\ LET r == tp_party_shares(ctx, "covenant", args.a, args.b)
       IN /\ ctx' = r.c
          /\ ret' = r.st
    /\ pc' = "returned"
    /\ UNCHANGED <<msg, trace, report, result, lookup, args>>

NextShare == SingleShares \/ TwoPartyShares

SpecShare == InitShare /\ [][NextShare]_vars

SumIsOne == BigAdd(args.a, args.b) = DecimalOne

ShareSumValid ==
    IF args.fn = "single"
    THEN Has(ctx.checks, "remote_chain_splitter_config",
             "ls_share + native_share: verified")
    ELSE /\ Has(ctx.checks, "covenant", "party_a_share: verified")
         /\ Has(ctx.checks, "covenant", "party_b_share: verified")

ShareSumError ==
    IF args.fn = "single"
    THEN Has(ctx.errors, "remote_chain_splitter_config",
             "ls_share + native_share: invalid share: should sum up to 1")
    ELSE Has(ctx.errors, "covenant",
             "party_b_share: invalid share: sum of shares should be 1.0")

\* the values the conversions of the check accept: each share within i64 for
\* the single-party check, the sum within u128 for the two-party check
SharesInRange ==
    IF args.fn = "single"
    THEN FitsI64(args.a) /\ FitsI64(args.b)
    ELSE ~U128AddOverflows(args.a, args.b)

\* C10 as stated: the share-sum check records a valid result iff the two
\* 10^18-scaled values sum to exactly 1.0, and records an error otherwise.
Cex_C10_ShareSum ==
    pc = "returned" =>
        /\ ShareSumValid <=> SumIsOne
        /\ ~SumIsOne => ShareSumError

\* C10 amended: a valid result is recorded iff the sum is exactly 1.0 (no
\* tolerance); an error is recorded iff the sum is not 1.0 and the values are
\* in the range of the check's conversion; out-of-range values end the run
\* (Err or panic) with neither a valid nor an error record of the sum.
Thm_C10_ShareSum ==
    pc = "returned" =>
        /\ ShareSumValid <=> SumIsOne
        /\ ShareSumError <=> (~SumIsOne /\ SharesInRange)
        /\ SharesInRange <=> ret = "ok"

\* C10 witness: 0.35 + 0.649999999999999999 was checked single-party and
\* recorded as an error
Wit_C10_ShareSum ==
    /\ pc = "returned"
    /\ args = [fn |-> "single", a |-> <<0, 0, 0, 0, 35>>,
               b |-> <<9999, 9999, 9999, 9999, 64>>]
    /\ ShareSumError
    /\ ~ShareSumValid

(***************************************************************************)
(* Strings: byte-wise order of str (Ord), prefix test                      *)
(***************************************************************************)
\* the characters of chain names and denoms, in ASCII order
Alphabet == "()-./0123456789ABCDEFGHIJKLMNOPQRSTUVWXYZ[]_abcdefghijklmnopqrstuvwxyz"

CharRank(ch) == CHOOSE i \in 1..Len(Alphabet) : SubSeq(Alphabet, i, i) = ch

\* a < b for str
RECURSIVE StrLess(_, _)
StrLess(a, b) ==
    IF b = "" THEN FALSE
    ELSE IF a = "" THEN TRUE
    ELSE LET x == CharRank(SubSeq(a, 1, 1))
             y == CharRank(SubSeq(b, 1, 1))
         IN IF x # y THEN x < y
            ELSE StrLess(SubSeq(a, 2, Len(a)), SubSeq(b, 2, Len(b)))

\* a.min(b) and a.max(b)
StrMin(a, b) == IF StrLess(b, a) THEN b ELSE a
StrMax(a, b) == IF StrLess(b, a) THEN a ELSE b

\* s.starts_with(prefix)
StartsWith(s, prefix) ==
    /\ Len(s) >= Len(prefix)
    /\ SubSeq(s, 1, Len(prefix)) = prefix

\* s.contains(sub)
Contains(s, sub) ==
    \E i \in 1..(Len(s) - Len(sub) + 1) : SubSeq(s, i, i + Len(sub) - 1) = sub

(***************************************************************************)
(* IBC path lookup (utils/path.rs)                                         *)
(***************************************************************************)
\* IBCPath::default(): what a body that is no IBCPath JSON parses to
DefaultPath ==
    [ chain_1 |-> [chain_name |-> "", connection_id |-> ""],
      chain_2 |-> [chain_name |-> "", connection_id |-> ""],
      channels |-> <<>> ]

PathFileNameUnordered(chain_a, chain_b) ==
    "_IBC/" \o chain_a \o "-" \o chain_b \o ".json"

\* format!("_IBC/{}-{}.json", chain_a.min(chain_b), chain_a.max(chain_b))
PathFileName(chain_a, chain_b) ==
    "_IBC/" \o StrMin(chain_a, chain_b) \o "-" \o StrMax(chain_a, chain_b) \o ".json"

\* get_path_info once the file content arrived: registry maps the files that
\* exist to the IBCPath they hold; any other body parses to the default
get_path_info(registry, chain_a, chain_b) ==
    LET file == PathFileName(chain_a, chain_b)
    IN IF file \in DOMAIN registry THEN registry[file] ELSE DefaultPath

(***************************************************************************)
(* Channel resolver (validations/two_party_pol_covenant.rs)                *)
(***************************************************************************)
\* index of the first element of seq that satisfies P, 0 when there is none
FirstIndex(seq, P(_)) ==
    IF \E i \in 1..Len(seq) : P(seq[i])
    THEN CHOOSE i \in 1..Len(seq) : P(seq[i]) /\ \A j \in 1..(i - 1) : ~P(seq[j])
    ELSE 0

\* the filter of the branch taken when chain_1 is the hub
HubFirstMatch(c, channel_uses_wasm_port) ==
    /\ c.chain_1.port_id = TRANSFER_PORT_ID
    /\ \/ channel_uses_wasm_port /\ StartsWith(c.chain_2.port_id, "wasm.")
       \/ ~channel_uses_wasm_port /\ c.chain_2.port_id = TRANSFER_PORT_ID

\* the filter of the branch taken when chain_1 is not the hub
HubSecondMatch(c, channel_uses_wasm_port) ==
    /\ c.chain_2.port_id = TRANSFER_PORT_ID
    /\ \/ channel_uses_wasm_port /\ StartsWith(c.chain_1.port_id, "wasm.")
       \/ c.chain_1.port_id = TRANSFER_PORT_ID

Resolved(connection_id, forward, reverse) ==
    [st |-> "ok", connection_id |-> connection_id, forward |-> forward,
     reverse |-> reverse]

NoChannel == [st |-> "panic"]

\* filter_map(..).next().unwrap(): the first matching channel, a panic when
\* there is none
get_path_connection_and_channels(path_info, channel_uses_wasm_port) ==
    IF path_info.chain_1.chain_name = NEUTRON_CHAIN_NAME
    THEN LET M(c) == HubFirstMatch(c, channel_uses_wasm_port)
             i == FirstIndex(path_info.channels, M)
         IN IF i = 0 THEN NoChannel
            ELSE Resolved(path_info.chain_1.connection_id,
                          path_info.channels[i].chain_1.channel_id,
                          path_info.channels[i].chain_2.channel_id)
    ELSE LET M(c) == HubSecondMatch(c, channel_uses_wasm_port)
             i == FirstIndex(path_info.channels, M)
         IN IF i = 0 THEN NoChannel
            ELSE Resolved(path_info.chain_2.connection_id,
                          path_info.channels[i].chain_2.channel_id,
                          path_info.channels[i].chain_1.channel_id)

(***************************************************************************)
(* The chain registry as the lookups see it                                *)
(***************************************************************************)
\* counterpart chains of the hub
PartyChains == {"cosmoshub", "osmosis", "stride"}

\* port ids a registry channel may carry
PortIds == {"transfer", "wasm.neutron1hub", "icahost"}

MaxChannels == 2

\* the i-th channel of a path: its ids name the entry and the side
Channel(i, port_1, port_2) ==
    [ chain_1 |-> [channel_id |-> "channel-" \o ToString(2 * i - 1), port_id |-> port_1],
      chain_2 |-> [channel_id |-> "channel-" \o ToString(2 * i), port_id |-> port_2] ]

\* channel lists of up to MaxChannels entries, over all port combinations
ChannelLists ==
    UNION { { [i \in 1..n |-> Channel(i, ports[i][1], ports[i][2])] :
                ports \in [1..n -> PortIds \X PortIds] } : n \in 0..MaxChannels }

\* the registry file of the pair {party, neutron}: the registry names it, and
\* orders chain_1 and chain_2, alphabetically
RegistryFile(party) ==
    CASE party = "cosmoshub" -> "_IBC/cosmoshub-neutron.json"
      [] party = "osmosis" -> "_IBC/neutron-osmosis.json"
      [] party = "stride" -> "_IBC/neutron-stride.json"

RegistryPath(party, channels) ==
    IF party = "cosmoshub"
    THEN [ chain_1 |-> [chain_name |-> party, connection_id |-> "connection-1"],
           chain_2 |-> [chain_name |-> "neutron", connection_id |-> "connection-2"],
           channels |-> channels ]
    ELSE [ chain_1 |-> [chain_name |-> "neutron", connection_id |-> "connection-1"],
           chain_2 |-> [chain_name |-> party, connection_id |-> "connection-2"],
           channels |-> channels ]

\* a registry that stores the path of {party, neutron}, or stores nothing
Registries(party) ==
    { (RegistryFile(party) :> RegistryPath(party, chs)) : chs \in ChannelLists }
    \cup { EmptyMap }

(***************************************************************************)
(* SpecPath: the lookup and the resolver, called with both argument orders *)
(***************************************************************************)
InitPath ==
    /\ pc = "call"
    /\ ctx = DefaultContext
    /\ msg = <<>>
    /\ trace = <<>>
    /\ report = <<>>
    /\ result = "running"
    /\ lookup = <<>>
    /\ \E party \in PartyChains, flag \in BOOLEAN :
         \E reg \in Registries(party) :
            args = [party |-> party, channel_uses_wasm_port |-> flag, registry |-> reg]
    /\ ret = [xy |-> "none", yx |-> "none"]

\* get_path_info(party, NEUTRON_CHAIN_NAME), then the resolver
ResolveXY ==
    /\ pc = "call"
    /\ LET path_info == get_path_info(args.registry, args.party, NEUTRON_CHAIN_NAME)
       IN ret' = [ret EXCEPT !.xy =
                    get_path_connection_and_channels(path_info,
                                                     args.channel_uses_wasm_port)]
    /\ lookup' = Append(lookup, PathFileName(args.party, NEUTRON_CHAIN_NAME))
    /\ pc' = "swapped"
    /\ UNCHANGED <<ctx, msg, trace, report, result, args>>

\* get_path_info(NEUTRON_CHAIN_NAME, party), then the resolver
ResolveYX ==
    /\ pc = "swapped"
    /\ LET path_info == get_path_info(args.registry, NEUTRON_CHAIN_NAME, args.party)
       IN ret' = [ret EXCEPT !.yx =
                    get_path_connection_and_channels(path_info,
                                                     args.channel_uses_wasm_port)]
    /\ lookup' = Append(lookup, PathFileName(NEUTRON_CHAIN_NAME, args.party))
    /\ pc' = "returned"
    /\ UNCHANGED <<ctx, msg, trace, report, result, args>>

NextPath == ResolveXY \/ ResolveYX

SpecPath == InitPath /\ [][NextPath]_vars

\* the path the registry of this behaviour stores for {party, neutron}
PathStored == RegistryFile(args.party) \in DOMAIN args.registry
StoredPath == args.registry[RegistryFile(args.party)]

\* the side of the stored path that is the hub, and the other one
HubSide == IF StoredPath.chain_1.chain_name = NEUTRON_CHAIN_NAME
           THEN "chain_1" ELSE "chain_2"
PartySide == IF HubSide = "chain_1" THEN "chain_2" ELSE "chain_1"

\* the port predicate as the specification states it, for either hub side
PortPredicate(c) ==
    /\ c[HubSide].port_id = "transfer"
    /\ IF args.channel_uses_wasm_port
       THEN StartsWith(c[PartySide].port_id, "wasm.")
       ELSE c[PartySide].port_id = "transfer"

FirstPortMatch == FirstIndex(StoredPath.channels, PortPredicate)

\* C6: the resolver selects the first channel in list order whose hub-side port
\* is exactly "transfer" and whose counterpart-side port is exactly "transfer"
\* (flag unset) or begins with "wasm." (flag set), and returns the hub-side
\* connection id, the hub-side channel id as forward and the counterpart-side
\* channel id as reverse, whether the hub is stored as chain_1 or as chain_2.
Cex_C6_FirstMatch ==
    (pc # "call" /\ PathStored) =>
        /\ FirstPortMatch # 0 =>
              ret.xy = Resolved(StoredPath[HubSide].connection_id,
                                StoredPath.channels[FirstPortMatch][HubSide].channel_id,
                                StoredPath.channels[FirstPortMatch][PartySide].channel_id)
        /\ ret.xy.st = "ok" => FirstPortMatch # 0

LookupErr == [st |-> "err"]

\* get_file_content + serde_json::from_str(..).unwrap_or_default(): the file
\* of the pair when the registry holds it, the default path for any other body
PathFound(path_info) == [st |-> "ok", path |-> path_info]

\* chain metadata registry: native denom, decimals and display of a chain
ChainInfoOf(chain) ==
    CASE chain = "cosmoshub" -> [denom |-> "uatom", decimals |-> 6, display |-> "atom"]
      [] chain = "osmosis" -> [denom |-> "uosmo", decimals |-> 6, display |-> "osmo"]
      [] chain = "stride" -> [denom |-> "ustrd", decimals |-> 6, display |-> "strd"]
      [] chain = "neutron" -> [denom |-> "untrn", decimals |-> 6, display |-> "ntrn"]

\* get_chain_info(chain): the request fails or returns the chain's metadata
get_chain_info(ok, chain) ==
    IF ok THEN [st |-> "ok", info |-> ChainInfoOf(chain)] ELSE LookupErr

\* Sha256::digest: kept symbolic, one distinct digest per distinct input
Sha256(bytes) == "sha256(" \o bytes \o ")"

\* base16ct::upper::encode_string
UpperHex(digest) == "HEX[" \o digest \o "]"

\* format!("ibc/{}", upper_hex(sha256(format!("transfer/{}/{}", channel, base))))
IbcDenom(channel_id, base_denom) ==
    "ibc/" \o UpperHex(Sha256("transfer/" \o channel_id \o "/" \o base_denom))

\* AssetInfo of the chain registry
Asset(name, symbol, denom, display, base, decimals, denom_units) ==
    [ name |-> name, symbol |-> symbol, denom |-> denom, display |-> display,
      base |-> base, decimals |-> decimals, denom_units |-> denom_units ]

DenomUnit(denom, exponent, aliases) ==
    [denom |-> denom, exponent |-> exponent, aliases |-> aliases]

\* the asset list of a chain as chains.cosmos.directory serves it
AssetListOf(chain) ==
    CASE chain = "cosmoshub" ->
           << Asset("Cosmos Hub Atom", "ATOM", "uatom", "atom", "uatom", 6,
                    << DenomUnit("uatom", 0, <<>>), DenomUnit("atom", 6, <<>>) >>) >>
      [] chain = "osmosis" ->
           << Asset("Osmosis", "OSMO", "uosmo", "osmo", "uosmo", 6,
                    << DenomUnit("uosmo", 0, <<>>), DenomUnit("osmo", 6, <<>>) >>) >>
      [] chain = "stride" ->
           << Asset("Stride", "STRD", "ustrd", "strd", "ustrd", 6,
                    << DenomUnit("ustrd", 0, <<>>), DenomUnit("strd", 6, <<>>) >>),
              Asset("stATOM (old)", "stATOM", "stuatom-old", "statom", "stuatom-old", 6,
                    << DenomUnit("stuatom-old", 0, <<>>) >>),
              Asset("stATOM", "stATOM", "stuatom", "statom", "stuatom", 6,
                    << DenomUnit("stuatom", 0, <<>>), DenomUnit("statom", 6, <<>>) >>) >>
      [] chain = "neutron" ->
           << Asset("Neutron", "NTRN", "untrn", "ntrn", "untrn", 6,
                    << DenomUnit("untrn", 0, <<>>), DenomUnit("ntrn", 6, <<>>) >>),
              Asset("Cosmos Hub Atom", "ATOM", IbcDenom("channel-2", "uatom"), "atom",
                    IbcDenom("channel-2", "uatom"), 6,
                    << DenomUnit(IbcDenom("channel-2", "uatom"), 0, <<"uatom">>),
                       DenomUnit("atom", 6, <<>>) >>),
              Asset("Stride", "STRD", IbcDenom("channel-1", "ustrd"), "strd",
                    IbcDenom("channel-1", "ustrd"), 6,
                    << DenomUnit(IbcDenom("channel-1", "ustrd"), 0, <<>>),
                       DenomUnit("strd", 6, <<>>) >>) >>

\* the assetlist request of a chain fails or returns its list
AssetsResponse(ok, chain) ==
    IF ok THEN [st |-> "ok", assets |-> AssetListOf(chain)] ELSE LookupErr

\* the predicate of assets.into_iter().find(..)
AssetMatches(asset, asset_name) ==
    /\ \/ asset.name = asset_name
       \/ asset.symbol = asset_name
       \/ asset.denom = asset_name
       \/ asset.display = asset_name
       \/ asset.base = asset_name
    /\ ~(Contains(asset.name, "(old)") \/ Contains(asset.symbol, "(old)"))

\* get_chain_asset_info: Err when the request failed or no asset matches
get_chain_asset_info(response, asset_name) ==
    IF response.st = "err" THEN LookupErr
    ELSE LET M(a) == AssetMatches(a, asset_name)
             i == FirstIndex(response.assets, M)
         IN IF i = 0 THEN LookupErr
            ELSE [st |-> "ok", asset |-> response.assets[i]]

\* addresses whose Bech32 checksum verifies (CheckedHrpstring::new::<Bech32>)
ValidBech32 ==
    { "cosmos1ayw8xtxkty5cfzx44z6vxpevmtudg2n3f4etcq",
      "neutron1ayw8xtxkty5cfzx44z6vxpevmtudg2n3d2sfz8" }

\* validate_party_address
validate_party_address(c, key, field, address) ==
    IF address \in ValidBech32
    THEN valid_field(c, key, field, "valid Bech32 address")
    ELSE invalid_field(c, key, field, "Invalid Bech32 address")

\* 10u128.pow(n)
RECURSIVE Pow10(_)
Pow10(n) == IF n = 0 THEN 1 ELSE 10 * Pow10(n - 1)

TwoDigits(n) == IF n < 10 THEN "0" \o ToString(n) ELSE ToString(n)

\* format!("{:.2}", amount / 10^decimals), for amounts that have at most two
\* decimal places once scaled
FormatAmount(amount, decimals) ==
    ToString(amount \div Pow10(decimals)) \o "." \o
    TwoDigits(((amount % Pow10(decimals)) * 100) \div Pow10(decimals))

(***************************************************************************)
(* verify_party_config (validations/two_party_pol_covenant.rs)             *)
(*                                                                         *)
(* A party config p is a record: kind is "Native" or "Interchain", the     *)
(* other fields are those of the payload.  The function is cut where it    *)
(* awaits a lookup that can end the run: the path lookup, then the chain   *)
(* info lookup.                                                            *)
(***************************************************************************)
\* Interchain, lines 299-341: path lookup, resolver, the three path fields
party_path_checks(c, key, p, path_response, channel_uses_wasm_port) ==
    IF path_response.st = "err" THEN Err(c)
    ELSE LET expected == get_path_connection_and_channels(path_response.path,
                                                          channel_uses_wasm_port)
         IN IF expected.st = "panic" THEN Panic(c)
            ELSE LET c1 == verify_equals(c, key, "party_chain_connection_id",
                                         expected.connection_id,
                                         p.party_chain_connection_id, "connection id")
                     c2 == verify_equals(c1, key, "host_to_party_chain_channel_id",
                                         expected.forward,
                                         p.host_to_party_chain_channel_id, "channel id")
                 IN Ok(verify_equals(c2, key, "party_to_host_chain_channel_id",
                                     expected.reverse,
                                     p.party_to_host_chain_channel_id, "channel id"))

\* s.strip_prefix('u') of a string that starts with 'u'
StripU(s) == SubSeq(s, 2, Len(s))

\* Interchain, lines 343-404: what the remote_chain_denom block resolves.
\* how is "native" (the chain's denom), "asset" (found in the asset list),
\* "stripped" (found without its leading 'u') or "unknown".
ResolveRemoteDenom(chain_info, assets_response, remote_chain_denom) ==
    LET first == get_chain_asset_info(assets_response, remote_chain_denom)
        second == get_chain_asset_info(assets_response, StripU(remote_chain_denom))
    IN IF remote_chain_denom = chain_info.denom
       THEN [how |-> "native", base |-> chain_info.denom,
             decimals |-> chain_info.decimals, denom |-> chain_info.denom]
       ELSE IF first.st = "ok"
       THEN [how |-> "asset", base |-> first.asset.base,
             decimals |-> first.asset.decimals, denom |-> first.asset.denom]
       ELSE IF /\ StartsWith(remote_chain_denom, "u")
               /\ second.st = "ok"
               /\ \/ StripU(remote_chain_denom) = second.asset.denom
                  \/ StripU(remote_chain_denom) = second.asset.display
       THEN [how |-> "stripped", base |-> second.asset.base,
             decimals |-> second.asset.decimals, denom |-> StripU(remote_chain_denom)]
       ELSE [how |-> "unknown", base |-> chain_info.denom,
             decimals |-> chain_info.decimals, denom |-> remote_chain_denom]

\* the record of the remote_chain_denom field
remote_chain_denom_check(c, key, resolved, remote_chain_denom) ==
    CASE resolved.how \in {"native", "asset"} ->
           verify_equals(c, key, "remote_chain_denom", resolved.denom,
                         remote_chain_denom, "denom")
      [] resolved.how = "stripped" ->
           valid_field(c, key, "remote_chain_denom",
                       "verified (with denom '" \o resolved.denom \o "')")
      [] resolved.how = "unknown" ->
           invalid_field(c, key, "remote_chain_denom", "unknown denom")

\* Interchain, lines 406-428: the voucher denom is derived from the channel
\* id of the payload
native_denom_check(c, key, p, party_base_denom) ==
    verify_equals(c, key, "native_denom",
                  IbcDenom(p.host_to_party_chain_channel_id, party_base_denom),
                  p.native_denom, "denom")

\* Interchain, lines 430-452
interchain_contribution_check(c, key, p, decimals) ==
    IF p.contribution.denom # p.remote_chain_denom
    THEN invalid_field(c, key, "contribution",
            "invalid denom: expected " \o p.remote_chain_denom \o " | actual "
                \o p.contribution.denom)
    ELSE valid_field(c, key, "contribution",
            FormatAmount(p.contribution.amount, decimals) \o " " \o p.remote_chain_denom)

\* lines 454-457 and 294-297
party_address_checks(c, key, p) ==
    validate_party_address(
        validate_party_address(c, key, "party_receiver_addr", p.party_receiver_addr),
        key, "addr", p.addr)

\* Interchain, lines 343-457: chain info lookup, then the denom, contribution
\* and address fields
party_chain_checks(c, key, p, chain_response, assets_response) ==
    IF chain_response.st = "err" THEN Err(c)
    ELSE LET resolved == ResolveRemoteDenom(chain_response.info, assets_response,
                                            p.remote_chain_denom)
             c1 == remote_chain_denom_check(c, key, resolved, p.remote_chain_denom)
             c2 == native_denom_check(c1, key, p, resolved.base)
             c3 == interchain_contribution_check(c2, key, p, resolved.decimals)
         IN Ok(party_address_checks(c3, key, p))

\* Native, lines 233-251: the first alias starting with 'u' among the denom
\* units of exponent 0, or the asset's base
RECURSIVE FirstUAlias(_)
FirstUAlias(denom_units) ==
    IF denom_units = <<>> THEN ""
    ELSE LET d == Head(denom_units)
             U(a) == StartsWith(a, "u")
             i == IF d.exponent = 0 THEN FirstIndex(d.aliases, U) ELSE 0
         IN IF i # 0 THEN d.aliases[i] ELSE FirstUAlias(Tail(denom_units))

NativeBaseDenom(asset) ==
    IF FirstUAlias(asset.denom_units) # "" THEN FirstUAlias(asset.denom_units)
    ELSE asset.base

\* Native, lines 208-297: chain info lookup, then native_denom, contribution
\* and the two addresses
native_party_checks(c, key, p, chain_response, neutron_assets_response) ==
    IF chain_response.st = "err" THEN Err(c)
    ELSE LET info == chain_response.info
             found == get_chain_asset_info(neutron_assets_response, p.native_denom)
             is_ibc == p.native_denom # info.denom /\ StartsWith(p.native_denom, "ibc/")
             party_base_denom ==
                 IF is_ibc /\ found.st = "ok" THEN NativeBaseDenom(found.asset)
                 ELSE info.denom
             decimals ==
                 IF is_ibc /\ found.st = "ok" THEN found.asset.decimals
                 ELSE info.decimals
             c1 == IF p.native_denom = info.denom
                   THEN verify_equals(c, key, "native_denom", info.denom,
                                      p.native_denom, "denom")
                   ELSE IF is_ibc /\ found.st = "ok"
                   THEN verify_equals(c, key, "native_denom", found.asset.base,
                                      p.native_denom, "denom")
                   ELSE invalid_field(c, key, "native_denom", "unknown denom")
             c2 == IF /\ p.contribution.denom # party_base_denom
                      /\ p.contribution.denom # p.native_denom
                   THEN invalid_field(c1, key, "contribution",
                            "invalid denom: expected " \o party_base_denom
                                \o " | actual " \o p.contribution.denom)
                   ELSE valid_field(c1, key, "contribution",
                            FormatAmount(p.contribution.amount, decimals) \o " "
                                \o info.display)
         IN Ok(party_address_checks(c2, key, p))

(***************************************************************************)
(* One run of the command: how a step hands over to the next               *)
(***************************************************************************)
\* the records a step wrote, for the history
Written(step, r) ==
    [ step |-> step, st |-> r.st,
      checks |-> MapSize(r.c.checks) - MapSize(ctx.checks),
      errors |-> MapSize(r.c.errors) - MapSize(ctx.errors) ]

AdvanceShortCircuit(step, r, next, looked) ==
    /\ ctx' = r.c
    /\ trace' = Append(trace, Written(step, r))
    /\ lookup' = lookup \o looked
    /\ pc' = IF r.st = "ok" /\ MapSize(r.c.errors) = MapSize(ctx.errors)
             THEN next ELSE "done"
    /\ result' = IF r.st = "ok"
                 THEN (IF MapSize(r.c.errors) = MapSize(ctx.errors) THEN result ELSE "err")
                 ELSE r.st
    /\ report' = report

AdvancePastErr(step, r, next, looked) ==
    /\ ctx' = r.c
    /\ trace' = Append(trace, Written(step, r))
    /\ lookup' = lookup \o looked
    /\ pc' = IF r.st \in {"ok", "err"} THEN next ELSE "done"
    /\ result' = IF r.st \in {"ok", "err"} THEN result ELSE r.st
    /\ report' = report

\* A step returned r.  Ok: the pipeline goes on at `next`.  Err: the `?` of
\* the validator, of validate_covenant and of execute_cmd return it, nothing
\* else runs.  Panic: the process unwinds.
Advance(step, r, next, looked) ==
    /\ ctx' = r.c
    /\ trace' = Append(trace, Written(step, r))
    /\ lookup' = lookup \o looked
    /\ pc' = IF r.st = "ok" THEN next ELSE "done"
    /\ result' = IF r.st = "ok" THEN result ELSE r.st
    /\ report' = report

\* one entry of the lookup history
Looked(what, response) == [what |-> what, st |-> response.st, response |-> response]

\* the payload with one more field read
WithField(payload, field, value) == (field :> value) @@ payload

(***************************************************************************)
(* The party-config steps                                                  *)
(***************************************************************************)
PartyKeys == {"party_a_config", "party_b_config"}

PartyChainName(c, key) ==
    IF key = "party_a_config" THEN c.party_a_chain_name ELSE c.party_b_chain_name

AfterParty(key) ==
    IF key = "party_a_config" THEN "party_b_config" ELSE "liquid_pooler_config"

ChannelIds == {"channel-1", "channel-2"}
ConnectionIds == {"connection-1", "connection-2"}

MaxPartyChannels == 1
PartyPortIds == {"transfer", "wasm.neutron1hub"}

\* channel lists of up to MaxPartyChannels entries over PartyPortIds
PartyChannelLists ==
    UNION { { [i \in 1..n |-> Channel(i, ports[i][1], ports[i][2])] :
                ports \in [1..n -> PartyPortIds \X PartyPortIds] } :
            n \in 0..MaxPartyChannels }

\* the stored path with one channel, both ports "transfer"
TransferPath(party) ==
    RegistryPath(party, <<Channel(1, TRANSFER_PORT_ID, TRANSFER_PORT_ID)>>)

\* responses of the path lookup for {party, neutron}.  wide: the request
\* fails, the file is no path, or it holds any of PartyChannelLists
PathResponses(party, wide) ==
    IF wide
    THEN {LookupErr, PathFound(get_path_info(EmptyMap, party, NEUTRON_CHAIN_NAME))}
         \cup { PathFound(get_path_info(RegistryFile(party) :> RegistryPath(party, chs),
                                        party, NEUTRON_CHAIN_NAME)) :
                  chs \in PartyChannelLists }
    ELSE { LookupErr,
           PathFound(get_path_info(RegistryFile(party) :> TransferPath(party),
                                   party, NEUTRON_CHAIN_NAME)),
           PathFound(get_path_info(RegistryFile(party) :> RegistryPath(party, <<>>),
                                   party, NEUTRON_CHAIN_NAME)) }

\* the hub's side of the stored path of {party, neutron}
HubIsChain1(party) == RegistryPath(party, <<>>).chain_1.chain_name = NEUTRON_CHAIN_NAME
HubConnectionId(party) == IF HubIsChain1(party) THEN "connection-1" ELSE "connection-2"
HubChannelId(party) == IF HubIsChain1(party) THEN "channel-1" ELSE "channel-2"
PartyChannelId(party) == IF HubIsChain1(party) THEN "channel-2" ELSE "channel-1"

\* the path fields of an Interchain payload
InterchainPathFields(party, wide) ==
    IF wide
    THEN [ kind : {"Interchain"}, party_chain_connection_id : ConnectionIds,
           host_to_party_chain_channel_id : ChannelIds,
           party_to_host_chain_channel_id : ChannelIds ]
    ELSE [ kind : {"Interchain"}, party_chain_connection_id : {HubConnectionId(party)},
           host_to_party_chain_channel_id : ChannelIds,
           party_to_host_chain_channel_id : {PartyChannelId(party)} ]

\* party_receiver_addr and addr of a payload: each party has its receiver, its
\* addr is well-formed or not
ReceiverOf(key) ==
    IF key = "party_a_config"
    THEN "neutron1ayw8xtxkty5cfzx44z6vxpevmtudg2n3d2sfz8"
    ELSE "cosmos1ayw8xtxkty5cfzx44z6vxpevmtudg2n3f4etcq"

AddressPairs(key) ==
    { <<ReceiverOf(key), "cosmos1ayw8xtxkty5cfzx44z6vxpevmtudg2n3f4etcq">>,
      <<ReceiverOf(key), "cosmos1invalid">> }

ContributionAmounts == {1000000}

\* the remaining fields of an Interchain payload whose path fields are p
InterchainDenomFields(key, party, p, wide) ==
    IF wide
    THEN [ remote_chain_denom : {ChainInfoOf(party).denom, "stuatom", "stATOM",
                                 "ustatom", "uxyz"},
           native_denom : { IbcDenom(ch, b) : ch \in ChannelIds,
                                               b \in {ChainInfoOf(party).denom, "stuatom"} },
           contribution : [denom : {ChainInfoOf(party).denom, "stuatom", "uxyz"},
                           amount : ContributionAmounts],
           addrs : AddressPairs(key) ]
    ELSE [ remote_chain_denom : {ChainInfoOf(party).denom},
           native_denom : { IbcDenom(p.host_to_party_chain_channel_id,
                                     ChainInfoOf(party).denom) },
           contribution : [denom : {ChainInfoOf(party).denom},
                           amount : ContributionAmounts],
           addrs : {<<ReceiverOf(key), "cosmos1ayw8xtxkty5cfzx44z6vxpevmtudg2n3f4etcq">>} ]

\* a Native payload
NativeFields(key, party, wide) ==
    IF wide
    THEN [ kind : {"Native"},
           native_denom : {ChainInfoOf(party).denom, IbcDenom("channel-2", "uatom"),
                           IbcDenom("channel-1", "ustrd"), "ibc/unknown", "uxyz"},
           contribution : [denom : {ChainInfoOf(party).denom, "uatom", "uxyz"},
                           amount : ContributionAmounts],
           addrs : AddressPairs(key) ]
    ELSE [ kind : {"Native"},
           native_denom : {ChainInfoOf(party).denom},
           contribution : [denom : {ChainInfoOf(party).denom},
                           amount : ContributionAmounts],
           addrs : {<<ReceiverOf(key), "cosmos1ayw8xtxkty5cfzx44z6vxpevmtudg2n3f4etcq">>} ]

\* the payload fields party_receiver_addr and addr of a choice f
WithAddrs(p, f) ==
    WithField(WithField(p, "party_receiver_addr", f.addrs[1]), "addr", f.addrs[2])

\* verify_party_config of an Interchain party, up to the chain info lookup:
\* the path lookup, the resolver and the three path fields
PartyPath(key, wide) ==
    /\ pc = key
    /\ LET party == PartyChainName(ctx, key)
           flag == ctx.party_a_channel_uses_wasm_port
       IN \E response \in PathResponses(party, wide) :
            IF response.st = "err"
            THEN /\ Advance(key, Err(ctx), key, <<Looked("path", response)>>)
                 /\ UNCHANGED <<msg, args, ret>>
            ELSE \E p \in InterchainPathFields(party, wide) :
                   LET r == party_path_checks(ctx, key, p, response, flag)
                   IN /\ Advance(key, r, key \o ":chain", <<Looked("path", response)>>)
                      /\ ret' = WithField(ret, key,
                                  get_path_connection_and_channels(response.path, flag))
                      /\ msg' = IF r.st = "ok" THEN WithField(msg, key, p) ELSE msg
                      /\ args' = args

\* verify_party_config of an Interchain party, from the chain info lookup on
PartyChain(key, wide) ==
    /\ pc = key \o ":chain"
    /\ LET party == PartyChainName(ctx, key)
           p == msg[key]
       IN \E chain_ok \in BOOLEAN :
            IF ~chain_ok
            THEN /\ Advance(key, Err(ctx), key,
                            <<Looked("chain", get_chain_info(FALSE, party))>>)
                 /\ UNCHANGED <<msg, args, ret>>
            ELSE \E f \in InterchainDenomFields(key, party, p, wide),
                    assets_ok \in (IF wide THEN BOOLEAN ELSE {TRUE}) :
                   LET q == WithAddrs(
                              WithField(WithField(WithField(p,
                                  "remote_chain_denom", f.remote_chain_denom),
                                  "native_denom", f.native_denom),
                                  "contribution", f.contribution), f)
                       assets == AssetsResponse(assets_ok, party)
                       r == party_chain_checks(ctx, key, q,
                                               get_chain_info(TRUE, party), assets)
                   IN /\ Advance(key, r, AfterParty(key),
                                 <<Looked("chain", get_chain_info(TRUE, party)),
                                   Looked("assets", assets)>>)
                      /\ msg' = WithField(msg, key, q)
                      /\ UNCHANGED <<args, ret>>

\* verify_party_config of a Native party
PartyNative(key, wide) ==
    /\ pc = key
    /\ LET party == PartyChainName(ctx, key)
       IN \E chain_ok \in BOOLEAN :
            IF ~chain_ok
            THEN /\ Advance(key, Err(ctx), key,
                            <<Looked("chain", get_chain_info(FALSE, party))>>)
                 /\ UNCHANGED <<msg, args, ret>>
            ELSE \E f \in NativeFields(key, party, wide),
                    assets_ok \in (IF wide THEN BOOLEAN ELSE {TRUE}) :
                   LET q == WithAddrs([ kind |-> f.kind, native_denom |-> f.native_denom,
                                        contribution |-> f.contribution ], f)
                       assets == AssetsResponse(assets_ok, NEUTRON_CHAIN_NAME)
                       r == native_party_checks(ctx, key, q,
                                                get_chain_info(TRUE, party), assets)
                   IN /\ Advance(key, r, AfterParty(key),
                                 <<Looked("chain", get_chain_info(TRUE, party)),
                                   Looked("assets", assets)>>)
                      /\ msg' = WithField(msg, key, q)
                      /\ UNCHANGED <<args, ret>>

(***************************************************************************)
(* SpecParty: verify_party_config of one party, on every payload and every *)
(* registry of the wide sets                                               *)
(***************************************************************************)
\* the context configure_context leaves for a two-party covenant
ConfiguredContext(party_a, party_b, flag, pct) ==
    [DefaultContext EXCEPT !.party_a_chain_name = party_a,
                           !.party_b_chain_name = party_b,
                           !.party_a_channel_uses_wasm_port = flag,
                           !.single_side_lp_limit_pct = pct]

InitParty ==
    /\ \E key \in PartyKeys :
         /\ pc = key
         /\ args = [key |-> key]
    /\ \E a \in {"cosmoshub", "stride"}, b \in {"cosmoshub", "stride"}, flag \in BOOLEAN :
         /\ a # b
         /\ ctx = ConfiguredContext(a, b, flag, DEFAULT_SINGLE_SIDE_LP_LIMIT_PCT)
    /\ msg = <<>>
    /\ trace = <<>>
    /\ report = <<>>
    /\ result = "running"
    /\ lookup = <<>>
    /\ ret = <<>>

NextParty ==
    \/ PartyPath(args.key, TRUE)
    \/ PartyChain(args.key, TRUE)
    \/ PartyNative(args.key, TRUE)

SpecParty == InitParty /\ [][NextParty]_vars

\* the path lookup of the party returned a path
PartyPathFetched ==
    /\ lookup # <<>>
    /\ lookup[1].what = "path"
    /\ lookup[1].st = "ok"

FetchedPath == lookup[1].response.path

\* the port predicate of the resolver as specified, on a channel of the
\* fetched path: the hub's port is "transfer"; the counterpart's port is
\* "transfer" when the flag is unset and starts with "wasm." when it is set
FetchedPortPredicate(c) ==
    LET hub == IF FetchedPath.chain_1.chain_name = NEUTRON_CHAIN_NAME
               THEN "chain_1" ELSE "chain_2"
        other == IF hub = "chain_1" THEN "chain_2" ELSE "chain_1"
    IN /\ c[hub].port_id = "transfer"
       /\ IF ctx.party_a_channel_uses_wasm_port
          THEN StartsWith(c[other].port_id, "wasm.")
          ELSE c[other].port_id = "transfer"

NoChannelMatches ==
    \A i \in 1..Len(FetchedPath.channels) : ~FetchedPortPredicate(FetchedPath.channels[i])

\* some path field of the party is recorded as verified
PathFieldVerified ==
    \/ Has(ctx.checks, args.key, "party_chain_connection_id: verified")
    \/ Has(ctx.checks, args.key, "host_to_party_chain_channel_id: verified")
    \/ Has(ctx.checks, args.key, "party_to_host_chain_channel_id: verified")

\* C8: when no channel of the fetched path matches the port predicate (an
\* empty channel list included), the resolver produces no triple and no
\* default, the run fails, and no connection-id or channel-id field of the
\* party is recorded as verified.
Cex_C8_NoChannel ==
    (PartyPathFetched /\ NoChannelMatches) =>
        /\ ret[args.key].st = "panic"
        /\ result = "panic"
        /\ ~PathFieldVerified

\* the base denom the remote_chain_denom block resolved for the party
ResolvedBaseDenom ==
    ResolveRemoteDenom(lookup[2].response.info, lookup[3].response,
                       msg[args.key].remote_chain_denom).base

\* C9: for an Interchain party, native_denom is recorded valid iff the
\* configured voucher denom equals "ibc/" + HEX(SHA256("transfer/" + ch + "/" +
\* base)), ch being the hub-side channel id resolved from the path registry
\* and base the resolved base denom; a payload whose host-to-party channel id
\* is wrong never has native_denom recorded valid.
Cex_C9_NativeDenom ==
    (pc = AfterParty(args.key) /\ msg[args.key].kind = "Interchain") =>
        /\ Has(ctx.checks, args.key, "native_denom: verified")
             <=> msg[args.key].native_denom
                   = IbcDenom(ret[args.key].forward, ResolvedBaseDenom)
        /\ msg[args.key].host_to_party_chain_channel_id # ret[args.key].forward
             => ~Has(ctx.checks, args.key, "native_denom: verified")

(***************************************************************************)
(* Contract code ids (validations/two_party_pol_covenant.rs, 468-523)      *)
(*                                                                         *)
(* The manifest is the response of the release download: [st |-> "err"]    *)
(* when the request failed, else the lines of the file, each line the      *)
(* sequence of its whitespace-separated parts.                             *)
(***************************************************************************)
\* s.replace(sub, "")
RECURSIVE RemoveAll(_, _)
RemoveAll(s, sub) ==
    IF Len(s) < Len(sub) THEN s
    ELSE IF SubSeq(s, 1, Len(sub)) = sub
    THEN RemoveAll(SubSeq(s, Len(sub) + 1, Len(s)), sub)
    ELSE SubSeq(s, 1, 1) \o RemoveAll(SubSeq(s, 2, Len(s)), sub)

\* parts[0].trim().replace("valence_", "").replace(".wasm", "")
ContractName(part) == RemoveAll(RemoveAll(part, "valence_"), ".wasm")

Digits == "0123456789"

IsDigit(ch) == \E i \in 1..Len(Digits) : SubSeq(Digits, i, i) = ch

DigitValue(ch) == (CHOOSE i \in 1..Len(Digits) : SubSeq(Digits, i, i) = ch) - 1

\* text.parse::<u64>() of a text of decimal digits; -1 stands for Err
RECURSIVE ParseDigits(_, _)
ParseDigits(text, acc) ==
    IF text = "" THEN acc
    ELSE IF ~IsDigit(SubSeq(text, 1, 1)) THEN -1
    ELSE ParseDigits(SubSeq(text, 2, Len(text)), 10 * acc + DigitValue(SubSeq(text, 1, 1)))

ParseU64(text) == IF text = "" THEN -1 ELSE ParseDigits(text, 0)

\* the loop over the lines: Err on a line that has not two parts, a panic of
\* parse::<u64>().unwrap() on a code id that is no number
RECURSIVE ParseManifest(_, _)
ParseManifest(lines, code_ids) ==
    IF lines = <<>> THEN [st |-> "ok", code_ids |-> code_ids]
    ELSE LET parts == Head(lines)
         IN IF Len(parts) # 2
            THEN [st |-> "err", error |-> "invalid line in contract_code_ids.txt file"]
            ELSE IF ParseU64(parts[2]) = -1 THEN [st |-> "panic"]
            ELSE ParseManifest(Tail(lines),
                               (ContractName(parts[1]) :> ParseU64(parts[2])) @@ code_ids)

get_covenant_code_ids(manifest) ==
    IF manifest.st = "err"
    THEN [st |-> "err",
          error |-> "failed fetching contract code ids from covenants release"]
    ELSE ParseManifest(manifest.lines, EmptyMap)

\* verify_code_id that reports a missing contract name on the field
verify_code_id_on_field(c, field, code_ids, contract_name, code_id) ==
    IF contract_name \in DOMAIN code_ids /\ code_ids[contract_name] = code_id
    THEN valid_field(c, "contract_codes", field, "verified")
    ELSE invalid_field(c, "contract_codes", field, "invalid code id")

\* contracts.rs 35-54 (the same function is repeated at mod.rs 127-146)
verify_code_id(c, field, code_ids, contract_name, code_id) ==
    IF contract_name \in DOMAIN code_ids
    THEN IF code_ids[contract_name] = code_id
         THEN valid_field(c, "contract_codes", field, "verified")
         ELSE invalid_field(c, "contract_codes", field, "invalid code id")
    ELSE invalid(c, "contract_codes", "unknown contract name " \o contract_name)

\* field of the payload and contract name of the manifest, in check order
TwoPartyCodeFields ==
    << <<"ibc_forwarder_code", "ibc_forwarder">>,
       <<"holder_code", "two_party_pol_holder">>,
       <<"clock_code", "clock">>,
       <<"interchain_router_code", "interchain_router">>,
       <<"native_router_code", "native_router">>,
       <<"liquid_pooler_code", "astroport_liquid_pooler">> >>

RECURSIVE verify_code_fields(_, _, _, _)
verify_code_fields(c, fields, code_ids, contract_codes) ==
    IF fields = <<>> THEN c
    ELSE verify_code_fields(
            verify_code_id(c, Head(fields)[1], code_ids, Head(fields)[2],
                           contract_codes[Head(fields)[1]]),
            Tail(fields), code_ids, contract_codes)

\* a manifest that cannot be fetched or read is recorded, the run goes on
verify_two_party_pol_covenant_code_ids(c, key, contract_codes, manifest) ==
    LET fetched == get_covenant_code_ids(manifest)
    IN CASE fetched.st = "panic" -> Panic(c)
         [] fetched.st = "err" -> Ok(invalid(c, key, fetched.error))
         [] fetched.st = "ok" ->
              Ok(verify_code_fields(c, TwoPartyCodeFields, fetched.code_ids,
                                    contract_codes))

\* the manifest of release v0.1.0
ReleaseLines ==
    << <<"valence_ibc_forwarder.wasm", "11">>,
       <<"valence_two_party_pol_holder.wasm", "12">>,
       <<"valence_clock.wasm", "13">>,
       <<"valence_interchain_router.wasm", "14">>,
       <<"valence_native_router.wasm", "15">>,
       <<"valence_astroport_liquid_pooler.wasm", "16">> >>

ReleaseCodes ==
    [ ibc_forwarder_code |-> 11, holder_code |-> 12, clock_code |-> 13,
      interchain_router_code |-> 14, native_router_code |-> 15,
      liquid_pooler_code |-> 16 ]

\* manifest responses: the request fails; the release file; a file with a
\* code id that is no number
Manifests ==
    { LookupErr,
      [st |-> "ok", lines |-> ReleaseLines],
      [st |-> "ok", lines |-> <<ReleaseLines[1], <<"valence_clock.wasm", "x13">> >>] }

\* contract_codes of the payload: the release's ids, or a wrong holder code
ContractCodes == {ReleaseCodes, [ReleaseCodes EXCEPT !.holder_code = 99]}

(***************************************************************************)
(* Expirations (validations/neutron.rs)                                    *)
(***************************************************************************)
AtHeight(height) == [kind |-> "AtHeight", value |-> height]
\* Expiration::AtTime holds a Timestamp, a number of nanoseconds (BigNat)
AtTime(nanos) == [kind |-> "AtTime", value |-> nanos]
Never == [kind |-> "Never", value |-> 0]

\* get_latest_block: the request fails, the header holds no height, or it
\* holds the height
BlockResponse(height) == [st |-> "ok", height |-> height]

\* the height of the hub and the wall clock (seconds) during the run
CurrentHeight == 200
CurrentTime == 1000

\* SystemTime::now().duration_since(UNIX_EPOCH): the whole seconds of the
\* wall clock, or an error for a clock set before 1970
Clock(secs) == [st |-> "ok", secs |-> secs]
ClockErr == [st |-> "err"]

\* Timestamp::seconds(): the nanoseconds divided by 10^9, truncated
TimestampSeconds(nanos) == BigDivPow10(nanos, 9)

\* verify_expiration with deadlines that may equal the current height or second
verify_expiration_or_equal(c, key, field, deadline, block, now) ==
    CASE deadline.kind = "AtHeight" ->
           IF block.st = "err" THEN Err(c)
           ELSE IF deadline.value >= block.height
           THEN Ok(valid_field(c, key, field, "verified"))
           ELSE Ok(invalid_field(c, key, field,
                                 "invalid block height: should be in the future"))
      [] deadline.kind = "AtTime" ->
           IF now.st = "err" THEN Err(c)
           ELSE IF BigLeq(BigFromInt(now.secs), TimestampSeconds(deadline.value))
           THEN Ok(valid_field(c, key, field, "verified"))
           ELSE Ok(invalid_field(c, key, field,
                                 "invalid timestamp: should be in the future"))
      [] deadline.kind = "Never" ->
           Ok(valid_field(c, key, field, "verified (note: never expires)"))

\* verify_expiration: only a block-height deadline asks for the latest block,
\* only a time deadline reads the clock
verify_expiration(c, key, field, deadline, block, now) ==
    CASE deadline.kind = "AtHeight" ->
           IF block.st = "err" THEN Err(c)
           ELSE IF deadline.value > block.height
           THEN Ok(valid_field(c, key, field, "verified"))
           ELSE Ok(invalid_field(c, key, field,
                                 "invalid block height: should be in the future"))
      [] deadline.kind = "AtTime" ->
           IF now.st = "err" THEN Err(c)
           ELSE IF BigLess(BigFromInt(now.secs), TimestampSeconds(deadline.value))
           THEN Ok(valid_field(c, key, field, "verified"))
           ELSE Ok(invalid_field(c, key, field,
                                 "invalid timestamp: should be in the future"))
      [] deadline.kind = "Never" ->
           Ok(valid_field(c, key, field, "verified (note: never expires)"))

\* a <= b of cw_utils::Expiration (PartialOrd): heights compare with heights,
\* times with times (in nanoseconds), Never is above everything else and
\* equal to itself, a height and a time do not compare
ExpirationLeq(a, b) ==
    CASE a.kind = "Never" -> b.kind = "Never"
      [] b.kind = "Never" -> TRUE
      [] a.kind = "AtHeight" /\ b.kind = "AtHeight" -> a.value <= b.value
      [] a.kind = "AtTime" /\ b.kind = "AtTime" -> BigLeq(a.value, b.value)
      [] OTHER -> FALSE

\* the lockup expiration without its order with the deposit deadline
lockup_expiration_only(c, key, lockup_config, deposit_deadline, block, now) ==
    verify_expiration(c, key, "lockup_config", lockup_config, block, now)

\* validate, lines 86-98: the lockup expiration, then its order with the
\* deposit deadline
lockup_checks(c, key, lockup_config, deposit_deadline, block, now) ==
    LET r == verify_expiration(c, key, "lockup_config", lockup_config, block, now)
    IN IF r.st # "ok" THEN r
       ELSE IF ExpirationLeq(lockup_config, deposit_deadline)
       THEN Ok(invalid_field(r.c, key, "lockup_config",
                  "invalid lockup config: should be later than deposit deadline"))
       ELSE r

\* responses of the latest-block lookup
BlockResponses == {LookupErr, BlockResponse(CurrentHeight)}

\* deposit deadlines of a payload: a height to come and a height passed
DepositDeadlines == {AtHeight(300), AtHeight(100)}

\* lockup expirations of a payload: the height of the deposit deadline to
\* come or "never"; a height before the deposit deadline that has passed
LockupConfigs(deposit_deadline) ==
    IF deposit_deadline = AtHeight(100) THEN {AtHeight(50)} ELSE {AtHeight(300), Never}

(***************************************************************************)
(* Liquid pooler config (validations/astroport.rs)                         *)
(*                                                                         *)
(* Prices are 10^18-scaled atomics (BigNat).  rust_decimal holds 96 bits:  *)
(* the conversion fails above 2^96 - 1.  The arithmetic on converted       *)
(* prices is done in units of 10^-4, exact for the prices of the model.    *)
(***************************************************************************)
\* 2^96 - 1, the largest mantissa of rust_decimal::Decimal
U96Max == <<335, 4395, 5935, 4337, 1426, 1625, 9228, 7>>

RECURSIVE BigToInt(_)
BigToInt(a) == IF a = <<>> THEN 0 ELSE Head(a) + 10000 * BigToInt(Tail(a))

\* atomics / 10^14: the value in units of 10^-4
E4(atomics) == BigToInt(SubSeq(atomics, 4, Len(atomics))) \div 100

\* try_into::<i128>()? then try_from_i128_with_scale(.., 18)?
FitsDecimal(atomics) == BigLeq(atomics, I128Max) /\ BigLeq(atomics, U96Max)

FourDigits(n) ==
    IF n < 10 THEN "000" \o ToString(n)
    ELSE IF n < 100 THEN "00" \o ToString(n)
    ELSE IF n < 1000 THEN "0" \o ToString(n)
    ELSE ToString(n)

\* format!("{:.4}", d) of a value given in units of 10^-4
FormatE4(n) == ToString(n \div 10000) \o "." \o FourDigits(n % 10000)

(***************************************************************************)
(* BigNat products and quotients                                           *)
(***************************************************************************)
\* a * d + carry for 0 <= d < 10^4
RECURSIVE BigMulSmallC(_, _, _)
BigMulSmallC(a, d, carry) ==
    IF a = <<>> THEN (IF carry = 0 THEN <<>> ELSE <<carry>>)
    ELSE LET p == Head(a) * d + carry
         IN <<p % 10000>> \o BigMulSmallC(Tail(a), d, p \div 10000)

BigMulSmall(a, d) == BigNorm(BigMulSmallC(a, d, 0))

RECURSIVE BigMul(_, _)
BigMul(a, b) ==
    IF a = <<>> \/ b = <<>> THEN <<>>
    ELSE LET rest == BigMul(a, Tail(b))
         IN BigNorm(BigAdd(BigMulSmall(a, Head(b)),
                           IF rest = <<>> THEN <<>> ELSE <<0>> \o rest))

RECURSIVE BigPow10(_)
BigPow10(n) == IF n = 0 THEN <<1>> ELSE BigMulSmall(BigPow10(n - 1), 10)

\* the decimal digits of a
RECURSIVE BigToString(_)
BigToString(a) ==
    IF a = <<>> THEN "0"
    ELSE IF Len(a) = 1 THEN ToString(a[1])
    ELSE BigToString(SubSeq(a, 2, Len(a))) \o FourDigits(a[1])

(***************************************************************************)
(* rust_decimal::Decimal: a mantissa of at most 96 bits and a scale.       *)
(***************************************************************************)
\* Decimal::from(u128): panics above 2^96 - 1
FitsU96(a) == BigLeq(a, U96Max)

\* the largest scale of a Decimal (28 decimal places)
MaxScale == 28

\* the product leaves multiplication with the scale lowered, digit by digit,
\* until the mantissa fits 96 bits and the scale is at most 28; the digits
\* dropped round the mantissa
\* (a last dropped digit of 5 or more rounds up); None when the mantissa
\* does not fit at scale 0
RECURSIVE DecimalRescale(_, _, _)
DecimalRescale(mantissa, scale, dropped) ==
    IF scale > 0 /\ (~FitsU96(mantissa) \/ scale > MaxScale)
    THEN LET d == BigDivSmall(mantissa, 10)
         IN DecimalRescale(d.q, scale - 1, d.r)
    ELSE LET rounded == IF dropped >= 5 THEN BigAdd(mantissa, <<1>>) ELSE mantissa
         IN IF FitsU96(rounded)
            THEN [st |-> "some", mantissa |-> rounded, scale |-> scale]
            ELSE [st |-> "none"]

\* Decimal::from(amount).checked_mul(share), share = Decimal::new(atomics, 18)
checked_mul(amount, share_atomics) ==
    DecimalRescale(BigMul(amount, share_atomics), 18, 0)

\* Decimal::from(amount) == d: equality of the values
DecimalEqualsInteger(amount, d) ==
    BigMul(amount, BigPow10(d.scale)) = d.mantissa

\* format!("{:.2}", Decimal::from(amount) / 10^decimals), for amounts that
\* have at most two decimal places once scaled and decimals >= 2
FormatBigAmount(amount, decimals) ==
    LET hundredths == BigDivSmall(BigDivPow10(amount, decimals - 2), 100)
    IN BigToString(hundredths.q) \o "." \o TwoDigits(hundredths.r)

\* a - b for a >= b
RECURSIVE BigSubB(_, _, _)
BigSubB(a, b, borrow) ==
    IF a = <<>> THEN <<>>
    ELSE LET y == (IF b = <<>> THEN 0 ELSE Head(b)) + borrow
             x == Head(a)
         IN <<(IF x >= y THEN x - y ELSE x + 10000 - y)>> \o
            BigSubB(Tail(a), IF b = <<>> THEN <<>> ELSE Tail(b),
                    IF x >= y THEN 0 ELSE 1)

BigSub(a, b) == BigNorm(BigSubB(a, b, 0))

\* the largest digit d with b * d <= r, for r < 10 * b
BigDigit(r, b) == CHOOSE d \in 0..9 :
    /\ BigLeq(BigMulSmall(b, d), r)
    /\ d = 9 \/ BigLess(r, BigMulSmall(b, d + 1))

\* the i-th decimal digit of a, the lowest being the first
BigDigitAt(a, i) ==
    LET limb == a[((i - 1) \div 4) + 1]
        place == (i - 1) % 4
    IN (limb \div (IF place = 0 THEN 1 ELSE IF place = 1 THEN 10
                   ELSE IF place = 2 THEN 100 ELSE 1000)) % 10

\* long division of the decimal digits i, i - 1, .. 1 of a by b > 0, with the
\* quotient q and the remainder r < b of the digits above i
RECURSIVE BigDivModFrom(_, _, _, _, _)
BigDivModFrom(a, b, i, q, r) ==
    IF i = 0 \/ ~BigLess(r, b) \/ q # BigNorm(q) THEN [q |-> q, r |-> r]
    ELSE LET digit == BigDigitAt(a, i)
             cur == BigAdd(BigMulSmall(r, 10), IF digit = 0 THEN <<>> ELSE <<digit>>)
             d == BigDigit(cur, b)
         IN BigDivModFrom(a, b, i - 1,
                BigAdd(BigMulSmall(q, 10), IF d = 0 THEN <<>> ELSE <<d>>),
                BigSub(cur, BigMulSmall(b, d)))

\* quotient and remainder of a by b > 0
BigDivMod(a, b) == BigDivModFrom(a, b, 4 * Len(a), <<>>, <<>>)

Decimal(mantissa, scale) == [st |-> "some", mantissa |-> mantissa, scale |-> scale]

\* the digits of a quotient after the decimal point: one more digit while the
\* remainder is not 0, the scale is below 28 and the mantissa fits 96 bits;
\* a remainder of half the divisor or more rounds the last digit up
RECURSIVE DecimalDivDigits(_, _, _, _)
DecimalDivDigits(q, r, b, scale) ==
    LET d == BigDigit(BigMulSmall(r, 10), b)
        next == BigAdd(BigMulSmall(q, 10), IF d = 0 THEN <<>> ELSE <<d>>)
    IN IF r # <<>> /\ scale < MaxScale /\ FitsU96(next)
       THEN DecimalDivDigits(next, BigSub(BigMulSmall(r, 10), BigMulSmall(b, d)),
                             b, scale + 1)
       ELSE Decimal(IF BigLeq(b, BigMulSmall(r, 2)) THEN BigAdd(q, <<1>>) ELSE q,
                    scale)

\* Decimal::from(a).checked_div(Decimal::from(b)).unwrap_or_default(): 0 when
\* b is 0
DecimalQuotient(whole, b) == DecimalDivDigits(whole.q, whole.r, b, 0)

checked_div_or_default(a, b) ==
    IF b = <<>> THEN Decimal(<<>>, 0) ELSE DecimalQuotient(BigDivMod(a, b), b)

\* x.checked_mul(y) of two Decimals
DecimalMul(x, y) ==
    DecimalRescale(BigMul(x.mantissa, y.mantissa), x.scale + y.scale, 0)

\* x < y and x <= y: the mantissas brought to the larger scale
DecimalLess(x, y) ==
    LET scale == IF x.scale > y.scale THEN x.scale ELSE y.scale
    IN BigLess(BigMul(x.mantissa, BigPow10(scale - x.scale)),
               BigMul(y.mantissa, BigPow10(scale - y.scale)))

DecimalLeq(x, y) == ~DecimalLess(y, x)

\* format!("{:.4}", d), for values that have no digit of 5 or more right
\* after the fourth decimal place
FormatDecimal4(d) ==
    LET shifted == IF d.scale >= 4 THEN BigDivPow10(d.mantissa, d.scale - 4)
                   ELSE BigMul(d.mantissa, BigPow10(4 - d.scale))
        parts == BigDivSmall(shifted, 10000)
    IN BigToString(parts.q) \o "." \o FourDigits(parts.r)

\* pair_type of PairInfo against pool_pair_type of the payload
pool_pair_type_check(c, key, pair_type, pool_pair_type) ==
    IF \/ pair_type = [xyk |-> TRUE, stable |-> FALSE, custom |-> ""]
          /\ pool_pair_type = "xyk"
       \/ pair_type = [xyk |-> FALSE, stable |-> TRUE, custom |-> ""]
          /\ pool_pair_type = "stable"
       \/ /\ ~pair_type.xyk /\ ~pair_type.stable /\ pair_type.custom # ""
          /\ pool_pair_type = "custom-" \o pair_type.custom
    THEN valid_field(c, key, "pool_pair_type", "verified")
    ELSE invalid_field(c, key, "pool_pair_type", "invalid pool pair type")

\* lines 27-117: pair lookup, pool_address, pool_pair_type and the two asset
\* denoms.  From line 92 on asset_b_denom names the pair's last asset, no
\* longer party B's denom.
lp_pair_checks(c, key, asset_a_denom, asset_b_denom, lp_cfg, pair_response) ==
    IF pair_response.st = "err" THEN Err(c)
    ELSE LET pair == pair_response.pair
             c1 == valid_field(c, key, "pool_address", "verified")
             c2 == pool_pair_type_check(c1, key, pair.pair_type, lp_cfg.pool_pair_type)
         IN IF pair.asset_infos = <<>> THEN Panic(c2)
            ELSE LET pair_asset_a_denom == pair.asset_infos[1]
                     pair_asset_b_denom == pair.asset_infos[Len(pair.asset_infos)]
                     asset_a_first == lp_cfg.asset_a_denom = asset_a_denom
                     expected_asset_a ==
                         IF asset_a_first THEN asset_a_denom ELSE asset_b_denom
                     expected_asset_b ==
                         IF asset_a_first THEN pair_asset_b_denom ELSE asset_a_denom
                     c3 == IF /\ pair_asset_a_denom = lp_cfg.asset_a_denom
                              /\ expected_asset_a = lp_cfg.asset_a_denom
                           THEN valid_field(c2, key, "asset_a_denom", "verified")
                           ELSE invalid_field(c2, key, "asset_a_denom",
                                    "invalid asset A denom '" \o lp_cfg.asset_a_denom
                                        \o "': should be '" \o expected_asset_a \o "'")
                 IN Ok(IF /\ pair_asset_b_denom = lp_cfg.asset_b_denom
                          /\ expected_asset_b = lp_cfg.asset_b_denom
                       THEN valid_field(c3, key, "asset_b_denom", "verified")
                       ELSE invalid_field(c3, key, "asset_b_denom",
                                "invalid asset B denom '" \o lp_cfg.asset_b_denom
                                    \o "': should be '" \o expected_asset_b \o "'"))

\* lines 138-140: the pool price a / b, 0 for a pool without asset B
current_pool_price(pool_a, pool_b) == checked_div_or_default(pool_a, pool_b)

\* Range { start: price * 0.95, end: price * 1.05 }.contains(expected); each
\* bound is None when the product does not fit a Decimal
PriceBand(price) ==
    [start |-> DecimalMul(price, Decimal(<<95>>, 2)),
     end |-> DecimalMul(price, Decimal(<<105>>, 2))]

BandContains(band, expected) ==
    DecimalLeq(band.start, expected) /\ DecimalLess(expected, band.end)

\* lines 160-183: the record of the spot price for a band; a bound that is
\* None panics at its unwrap(), both other outcomes are written to checks
spot_price_record(c, key, band, expected, warning) ==
    IF band.start.st = "none" \/ band.end.st = "none" THEN Panic(c)
    ELSE IF BandContains(band, expected)
    THEN Ok(valid_field(c, key, "expected_spot_price",
                        "within 5% range of current pool price"))
    ELSE Ok(valid_field(c, key, "expected_spot_price", warning))

\* lines 176-181: the warning of the two-party validator
spot_price_warning(expected, price) ==
    "expected " \o FormatDecimal4(expected) \o " | current pool price "
        \o FormatDecimal4(price) \o " -> outside of 5% range of current pool price"

\* single_party_pol_covenant.rs 847-852: the warning of the single-party
\* validator
sp_spot_price_warning(expected, price) ==
    "expected_spot_price: " \o FormatDecimal4(expected)
        \o " | current_pool_price: " \o FormatDecimal4(price)
        \o "\noutside of 5% range of current pool price"

\* lines 160-183 for a pool price
spot_price_against(c, key, expected, price) ==
    spot_price_record(c, key, PriceBand(price), expected,
                      spot_price_warning(expected, price))

sp_spot_price_against(c, key, expected, price) ==
    spot_price_record(c, key, PriceBand(price), expected,
                      sp_spot_price_warning(expected, price))

\* lines 138-183: the spot price against [0.95, 1.05) of the pool price
expected_spot_price_check(c, key, expected_atomics, pool_a, pool_b) ==
    spot_price_against(c, key, Decimal(expected_atomics, 18),
                       current_pool_price(pool_a, pool_b))

\* lines 138-183: Decimal::from of the two pool amounts, the conversion of the
\* expected price, then the check
expected_spot_price_step(c, key, expected_atomics, pool_a, pool_b) ==
    IF ~FitsU96(pool_a) \/ ~FitsU96(pool_b) THEN Panic(c)
    ELSE IF ~FitsDecimal(expected_atomics) THEN Err(c)
    ELSE expected_spot_price_check(c, key, expected_atomics, pool_a, pool_b)

\* the single-party validator, single_party_pol_covenant.rs 809-855: the
\* expected price is converted through i64, the warning is worded differently
sp_expected_spot_price_step(c, key, expected_atomics, pool_a, pool_b) ==
    IF ~FitsU96(pool_a) \/ ~FitsU96(pool_b) THEN Panic(c)
    ELSE IF ~FitsI64(expected_atomics) THEN Err(c)
    ELSE sp_spot_price_against(c, key, Decimal(expected_atomics, 18),
                               current_pool_price(pool_a, pool_b))

\* lines 185-209: spread / expected * 100, 0 when the expected price is 0
acceptable_price_spread_check(c, key, spread_e4, expected_e4) ==
    valid_field(c, key, "acceptable_price_spread",
                ToString(IF expected_e4 = 0 THEN 0 ELSE (spread_e4 * 100) \div expected_e4)
                    \o "%")

\* a magnitude with its sign
Signed(neg, magnitude) ==
    IF magnitude.st = "none" THEN magnitude
    ELSE [st |-> "some", neg |-> neg, mantissa |-> magnitude.mantissa,
          scale |-> magnitude.scale]

\* a - b of two mantissas at one scale: the sign and the magnitude, at that
\* scale while the magnitude fits 96 bits
SignedDiff(a, b, scale) ==
    Signed(BigLess(a, b),
           DecimalRescale(BigSub(IF BigLess(a, b) THEN b ELSE a,
                                 IF BigLess(a, b) THEN a ELSE b), scale, 0))

\* Decimal::from(x).checked_sub(y) for a Decimal y >= 0
DecimalSub(x, y) == SignedDiff(BigMul(x, BigPow10(y.scale)), y.mantissa, y.scale)

\* the magnitude of d for its whole part: up to the next integer when d has
\* a fraction
RoundedUp(d, whole) ==
    [st |-> "some", neg |-> d.neg, scale |-> 0,
     mantissa |-> IF BigMul(whole, BigPow10(d.scale)) = d.mantissa
                  THEN whole ELSE BigAdd(whole, <<1>>)]

\* d.round_dp_with_strategy(0, RoundingStrategy::AwayFromZero); None stays None
round_away_from_zero(d) ==
    IF d.st = "none" THEN d ELSE RoundedUp(d, BigDivPow10(d.mantissa, d.scale))

\* contribution - product, rounded; None when the product is None
LimitFromProduct(contribution, product) ==
    IF product.st = "none" THEN product
    ELSE round_away_from_zero(DecimalSub(contribution, product))

\* lines 217-224 and 241-248: contribution - contribution * pct / 100, rounded
\* away from zero to an integer; "none" where an unwrap() panics
ExpectedLimit(contribution, pct) ==
    LimitFromProduct(contribution,
        DecimalMul(Decimal(contribution, 0), Decimal(BigFromInt(pct), 2)))

\* Display of a rounded Decimal
FormatLimit(d) ==
    (IF d.neg /\ d.mantissa # <<>> THEN "-" ELSE "") \o BigToString(d.mantissa)

\* lines 226-236 and 250-261: verify_equals! of the expected and the
\* configured limit
limit_record(c, key, field, expected, limit) ==
    IF ~FitsU96(limit) \/ expected.st = "none" THEN Panic(c)
    ELSE IF expected.mantissa = limit /\ (~expected.neg \/ limit = <<>>)
    THEN Ok(valid_field(c, key, field, "verified"))
    ELSE Ok(invalid_field(c, key, field,
             "invalid single side lp limit: expected " \o FormatLimit(expected)
                 \o " | actual " \o BigToString(limit)))

\* lines 214-236 and 238-261: Decimal::from of the limit, the expected limit,
\* verify_equals!
single_side_limit_check(c, key, field, contribution, pct, limit) ==
    limit_record(c, key, field, ExpectedLimit(contribution, pct), limit)

\* a check that runs on the context of a step result that returned Ok
limit_check_after(r, key, field, contribution, pct, limit) ==
    IF r.st # "ok" THEN r
    ELSE single_side_limit_check(r.c, key, field, BigFromInt(contribution), pct,
                                 BigFromInt(limit))

\* lines 211-263: the limit of asset A, then the limit of asset B
single_side_limit_checks(r, key, asset_a_contribution, asset_b_contribution, limits, pct) ==
    limit_check_after(
        limit_check_after(r, key, "single_side_lp_limits_asset_a",
                          asset_a_contribution, pct, limits.asset_a_limit),
        key, "single_side_lp_limits_asset_b", asset_b_contribution, pct,
        limits.asset_b_limit)

\* lines 185-209 after the spot price: the conversion of the spread, then its
\* record
spread_check_after(spot, pool_price_cfg) ==
    IF spot.st # "ok" THEN spot
    ELSE IF ~FitsDecimal(pool_price_cfg.acceptable_price_spread) THEN Err(spot.c)
    ELSE Ok(acceptable_price_spread_check(spot.c, "pool_price_config",
                E4(pool_price_cfg.acceptable_price_spread),
                E4(pool_price_cfg.expected_spot_price)))

\* lines 119-265: pool lookup, the two price records under pool_price_config,
\* the two limits under the key of the step
lp_pool_checks(c, key, asset_a_contribution, asset_b_contribution, lp_cfg, pool_price_cfg, single_side_lp_limit_pct, pool_response) ==
    IF pool_response.st = "err" THEN Err(c)
    ELSE IF pool_response.pool.assets = <<>> THEN Panic(c)
    ELSE single_side_limit_checks(
             spread_check_after(
                 expected_spot_price_step(c, "pool_price_config",
                     pool_price_cfg.expected_spot_price,
                     pool_response.pool.assets[1],
                     pool_response.pool.assets[Len(pool_response.pool.assets)]),
                 pool_price_cfg),
             key, asset_a_contribution, asset_b_contribution,
             lp_cfg.single_side_lp_limits, single_side_lp_limit_pct)

\* the Osmosis variant, validate lines 134-148
osmosis_checks(c, key) ==
    invalid(invalid(c, key,
                "Osmosis liquid pooler config: validation logic not yet implemented."),
            "pool_price_config",
            "Osmosis pool price config: validation logic not yet implemented.")

(***************************************************************************)
(* Splits (validate, lines 151-194)                                        *)
(***************************************************************************)
\* sum of the shares of a receivers map
RECURSIVE ReceiversSum(_)
ReceiversSum(receivers) ==
    IF DOMAIN receivers = {} THEN BigZero
    ELSE LET a == CHOOSE a \in DOMAIN receivers : TRUE
         IN BigAdd(receivers[a],
                   ReceiversSum([b \in DOMAIN receivers \ {a} |-> receivers[b]]))

\* the conjuncts on the receivers of one denom: both parties are receivers,
\* `full` holds 1.0, the shares sum to 1.0
ReceiversOk(receivers, party_a_receiver, party_b_receiver, full) ==
    /\ party_a_receiver \in DOMAIN receivers
    /\ party_b_receiver \in DOMAIN receivers
    /\ receivers[full] = DecimalOne
    /\ ReceiversSum(receivers) = DecimalOne

\* the keys of the BTreeMap in order are [denom_1, denom_2]; denom_1 must give
\* party A everything and denom_2 party B
splits_checks(c, key, splits, party_a_denom, party_a_receiver, party_b_denom, party_b_receiver) ==
    IF /\ Cardinality(DOMAIN splits) = 2
       /\ DOMAIN splits = {party_a_denom, party_b_denom}
    THEN LET denom_1 == CHOOSE d \in DOMAIN splits :
                            \A e \in DOMAIN splits \ {d} : StrLess(d, e)
             denom_2 == CHOOSE d \in DOMAIN splits : d # denom_1
         IN IF /\ ReceiversOk(splits[denom_1], party_a_receiver, party_b_receiver,
                              party_a_receiver)
               /\ ReceiversOk(splits[denom_2], party_a_receiver, party_b_receiver,
                              party_b_receiver)
            THEN Ok(valid_field(c, key, "", "verified"))
            ELSE Ok(invalid_field(c, key, "",
                                  "invalid splits: sum of splits should be 1.0"))
    ELSE Ok(invalid_field(c, key, "", "invalid splits: unexpected denoms"))

DecimalHalf == <<0, 0, 0, 0, 50>>

\* splits of a payload: each denom wholly to one party (the first denom in
\* key order to party A), each denom half and half, one denom only
SplitsChoices(party_a_denom, party_a_receiver, party_b_denom, party_b_receiver) ==
    LET first == IF StrLess(party_a_denom, party_b_denom)
                 THEN party_a_denom ELSE party_b_denom
        second == IF first = party_a_denom THEN party_b_denom ELSE party_a_denom
        all_a == (party_a_receiver :> DecimalOne) @@ (party_b_receiver :> BigZero)
        all_b == (party_a_receiver :> BigZero) @@ (party_b_receiver :> DecimalOne)
        halves == (party_a_receiver :> DecimalHalf) @@ (party_b_receiver :> DecimalHalf)
    IN { (first :> all_a) @@ (second :> all_b),
         (first :> halves) @@ (second :> halves),
         (party_a_denom :> all_a) }

(***************************************************************************)
(* The report (commands.rs, render_markdown_table)                         *)
(***************************************************************************)
\* position of the first and of the last ": " of s, 0 when there is none
FirstSeparator(s) ==
    IF \E i \in 1..(Len(s) - 1) : SubSeq(s, i, i + 1) = ": "
    THEN CHOOSE i \in 1..(Len(s) - 1) :
            /\ SubSeq(s, i, i + 1) = ": "
            /\ \A j \in 1..(i - 1) : SubSeq(s, j, j + 1) # ": "
    ELSE 0

LastSeparator(s) ==
    IF \E i \in 1..(Len(s) - 1) : SubSeq(s, i, i + 1) = ": "
    THEN CHOOSE i \in 1..(Len(s) - 1) :
            /\ SubSeq(s, i, i + 1) = ": "
            /\ \A j \in (i + 1)..(Len(s) - 1) : SubSeq(s, j, j + 1) # ": "
    ELSE 0

\* message.split(": ").first() and .last()
FirstPart(s) == IF FirstSeparator(s) = 0 THEN s ELSE SubSeq(s, 1, FirstSeparator(s) - 1)
LastPart(s) == IF LastSeparator(s) = 0 THEN s ELSE SubSeq(s, LastSeparator(s) + 2, Len(s))

\* s.replace('|', "&#124;")
RECURSIVE ReplacePipe(_)
ReplacePipe(s) ==
    IF s = "" THEN ""
    ELSE (IF SubSeq(s, 1, 1) = "|" THEN "&#124;" ELSE SubSeq(s, 1, 1))
         \o ReplacePipe(SubSeq(s, 2, Len(s)))

\* the keys of a map in the order of sorted_by_key
RECURSIVE SortedKeys(_)
SortedKeys(keys) ==
    IF keys = {} THEN <<>>
    ELSE LET least == CHOOSE k \in keys : \A j \in keys \ {k} : StrLess(k, j)
         IN <<least>> \o SortedKeys(keys \ {least})

Row(key, field, message, status) ==
    [key |-> key, field |-> field, message |-> message, status |-> status]

\* the rows of one key: the key is printed on its first row only
KeyRows(key, messages, status) ==
    [ i \in 1..Len(messages) |->
        Row(IF i = 1 THEN key ELSE "", FirstPart(messages[i]),
            ReplacePipe(LastPart(messages[i])), status) ]

RECURSIVE MapRows(_, _, _)
MapRows(map, keys, status) ==
    IF keys = <<>> THEN <<>>
    ELSE KeyRows(Head(keys), map[Head(keys)], status) \o MapRows(map, Tail(keys), status)

\* the RandomState of the two HashMaps of a context: it fixes the order in
\* which iter() visits the keys, and differs from one process to the next
RandomStates == {0, 1}

\* HashMap::iter: the keys in the order of the hasher
iter(map, random_state) ==
    LET keys == SortedKeys(DOMAIN map)
    IN IF random_state = 0 THEN [i \in 1..Len(keys) |-> keys[Len(keys) + 1 - i]]
       ELSE IF keys = <<>> THEN keys
       ELSE Tail(keys) \o <<Head(keys)>>

\* the entries as iter() visits them, printed without sorting
in_iteration_order(entries) == entries

\* itertools sorted_by_key(|x| x.0): the keys are distinct, the result is
\* the one ascending order whatever the order of the entries was
sorted_by_key(entries) == SortedKeys({ entries[i] : i \in 1..Len(entries) })

\* the header, the checks by key, then the errors by key
render_markdown_table(c, random_state) ==
    <<Row("Key", "Field", "Message", "Status")>>
    \o MapRows(c.checks, sorted_by_key(iter(c.checks, random_state)), "valid")
    \o MapRows(c.errors, sorted_by_key(iter(c.errors, random_state)), "error")

(***************************************************************************)
(* Spec: one run of `covenant-cli validate` (commands.rs)                  *)
(***************************************************************************)
TWO_PARTY_POL == "valence-covenant-two-party-pol"
SINGLE_PARTY_POL == "valence-covenant-single-party-pol"
SWAP == "valence-covenant-swap"

\* the [covenant] table of the metadata file
Metadata(contract) ==
    [contract |-> contract, party_a_chain_name |-> "cosmoshub",
     party_b_chain_name |-> "stride"]

Metadatas ==
    { Metadata(t) : t \in {TWO_PARTY_POL, SWAP, "valence-covenant-unknown"} }
    \cup { WithField(Metadata(TWO_PARTY_POL), "party_a_channel_uses_wasm_port", TRUE),
           [contract |-> TWO_PARTY_POL, party_a_chain_name |-> "cosmoshub"] }

\* load_toml: the file cannot be read or parsed, or it holds a table
MetadataFiles == {LookupErr} \cup { [st |-> "ok", covenant |-> md] : md \in Metadatas }

\* configure_context: every unwrap of a missing key panics
configure_context(c, md) ==
    IF "contract" \notin DOMAIN md \/ "party_a_chain_name" \notin DOMAIN md
    THEN Panic(c)
    ELSE IF md.contract \in {TWO_PARTY_POL, SWAP} /\ "party_b_chain_name" \notin DOMAIN md
    THEN Panic([c EXCEPT !.party_a_chain_name = md.party_a_chain_name])
    ELSE IF "single_side_lp_limit_pct" \in DOMAIN md /\ md.single_side_lp_limit_pct < 0
    THEN Panic(c)
    ELSE Ok([c EXCEPT
              !.party_a_chain_name = md.party_a_chain_name,
              !.party_b_chain_name =
                  IF md.contract \in {TWO_PARTY_POL, SWAP}
                  THEN md.party_b_chain_name ELSE @,
              !.party_a_channel_uses_wasm_port =
                  IF "party_a_channel_uses_wasm_port" \in DOMAIN md
                  THEN (md.party_a_channel_uses_wasm_port \/ @) ELSE @,
              !.ls_provider =
                  IF "ls_provider" \in DOMAIN md THEN md.ls_provider ELSE @,
              !.single_side_lp_limit_pct =
                  IF "single_side_lp_limit_pct" \in DOMAIN md
                  THEN md.single_side_lp_limit_pct
                  ELSE DEFAULT_SINGLE_SIDE_LP_LIMIT_PCT])

\* a step of validate_covenant before the validator runs
Enter(r, next) ==
    /\ ctx' = r.c
    /\ pc' = IF r.st = "ok" THEN next ELSE "done"
    /\ result' = IF r.st = "ok" THEN result ELSE r.st
    /\ UNCHANGED <<trace, lookup, report>>

Init ==
    /\ pc = "start"
    /\ ctx = DefaultContext
    /\ msg = <<>>
    /\ trace = <<>>
    /\ report = <<>>
    /\ result = "running"
    /\ lookup = <<>>
    /\ args = [contract |-> "none"]
    /\ ret = <<>>

\* validate_covenant, lines 45-50: the metadata file and the context
ConfigureContext ==
    /\ pc = "start"
    /\ \E file \in MetadataFiles :
         IF file.st = "err"
         THEN Enter(Err(ctx), "dispatch") /\ args' = WithField(args, "metadata_file", file)
         ELSE /\ Enter(configure_context(ctx, file.covenant), "dispatch")
              /\ args' = [contract |-> IF "contract" \in DOMAIN file.covenant
                                       THEN file.covenant.contract ELSE args.contract,
                          metadata_file |-> file]
    /\ UNCHANGED <<msg, ret>>

\* the instantiation file: unreadable, or a payload of one of the kinds
InstantiationFiles ==
    {LookupErr} \cup { [st |-> "ok", kind |-> k] : k \in {TWO_PARTY_POL, SWAP} }

\* the first step of the validator of a contract type
validator_entry_default(contract) ==
    CASE contract = TWO_PARTY_POL -> "label"
      [] contract = SINGLE_PARTY_POL -> "single_party"
      [] OTHER -> "swap"

validator_entry(contract) ==
    CASE contract = TWO_PARTY_POL -> "label"
      [] contract = SINGLE_PARTY_POL -> "single_party"
      [] contract = SWAP -> "swap"
      [] OTHER -> "panic"

\* validate_covenant, lines 52-72: the instantiation file, then the match on
\* the contract type; the arm taken parses the payload as its own message
\* type, and serde fails on a payload of another kind
Dispatch ==
    /\ pc = "dispatch"
    /\ \E file \in InstantiationFiles :
         /\ IF file.st = "err" THEN Enter(Err(ctx), "done")
            ELSE IF validator_entry(args.contract) = "panic" THEN Enter(Panic(ctx), "done")
            ELSE IF validator_entry(file.kind) # validator_entry(args.contract)
                 THEN Enter(Err(ctx), "done")
            ELSE Enter(Ok(ctx), validator_entry(args.contract))
         /\ args' = WithField(args, "instantiation_file", file)
    /\ UNCHANGED <<msg, ret>>

\* swap_covenant.rs 20-31: the swap validator logs the label of its message
\* and returns Ok; the context is not touched
SwapValidate ==
    /\ pc = "swap"
    /\ \E label \in {"", "swap-covenant"} :
         /\ Advance("swap", Ok(ctx), "render", <<>>)
         /\ msg' = WithField(msg, "label", label)
    /\ UNCHANGED <<args, ret>>

Labels == {"", "two-party-pol-covenant"}

label_check(c, key, label) ==
    IF label = "" THEN invalid_field(c, key, "label", "required")
    ELSE valid_field(c, key, "label", "valid")

TpLabel ==
    /\ pc = "label"
    /\ \E label \in Labels :
         /\ Advance("label", Ok(label_check(ctx, "covenant", label)), "contract_codes", <<>>)
         /\ msg' = WithField(msg, "label", label)
    /\ UNCHANGED <<args, ret>>

TpCodeIds ==
    /\ pc = "contract_codes"
    /\ \E manifest \in Manifests, contract_codes \in ContractCodes :
         LET r == verify_two_party_pol_covenant_code_ids(ctx, "contract_codes",
                                                         contract_codes, manifest)
         IN /\ Advance("contract_codes", r, "party_shares",
                       <<Looked("manifest", manifest)>>)
            /\ msg' = IF get_covenant_code_ids(manifest).st = "ok"
                      THEN WithField(msg, "contract_codes", contract_codes) ELSE msg
    /\ UNCHANGED <<args, ret>>

\* party_a_share and party_b_share of a payload
PartyShares ==
    { <<<<0, 0, 0, 0, 40>>, <<0, 0, 0, 0, 60>>>>,
      <<<<0, 0, 0, 0, 35>>, <<0, 0, 0, 0, 60>>>>,
      <<U128Max, DecimalOne>> }

\* validate, lines 56-80: covenant_type, then the shares
TpShares ==
    /\ pc = "party_shares"
    /\ \E shares \in PartyShares :
         LET c1 == valid_field(ctx, "covenant", "covenant_type", "verified")
         IN /\ Advance("party_shares",
                       tp_party_shares(c1, "covenant", shares[1], shares[2]),
                       "deposit_deadline", <<>>)
            /\ msg' = WithField(WithField(msg, "party_a_share", shares[1]),
                                "party_b_share", shares[2])
    /\ UNCHANGED <<args, ret>>

\* the latest-block lookup is made for a block-height deadline only
BlockLooked(deadline, block) ==
    IF deadline.kind = "AtHeight" THEN <<Looked("block", block)>> ELSE <<>>

TpDepositDeadline ==
    /\ pc = "deposit_deadline"
    /\ \E deadline \in DepositDeadlines, block \in BlockResponses :
         /\ Advance("deposit_deadline",
                    verify_expiration(ctx, "covenant", "deposit_deadline", deadline,
                                      block, Clock(CurrentTime)),
                    "lockup_config", BlockLooked(deadline, block))
         /\ msg' = WithField(msg, "deposit_deadline", deadline)
    /\ UNCHANGED <<args, ret>>

TpLockup ==
    /\ pc = "lockup_config"
    /\ \E lockup_config \in LockupConfigs(msg.deposit_deadline), block \in BlockResponses :
         /\ Advance("lockup_config",
                    lockup_checks(ctx, "covenant", lockup_config, msg.deposit_deadline,
                                  block, Clock(CurrentTime)),
                    "party_a_config", BlockLooked(lockup_config, block))
         /\ msg' = WithField(msg, "lockup_config", lockup_config)
    /\ UNCHANGED <<args, ret>>

\* PairInfo::default(): no pair type, no assets
DefaultPair ==
    [pair_type |-> [xyk |-> FALSE, stable |-> FALSE, custom |-> ""], asset_infos |-> <<>>]

\* responses of the pair query: the request fails, the body is no PairInfo,
\* or it is the xyk pair of the two denoms
PairResponses(asset_a_denom, asset_b_denom) ==
    { LookupErr,
      [st |-> "ok", pair |-> DefaultPair],
      [st |-> "ok",
       pair |-> [pair_type |-> [xyk |-> TRUE, stable |-> FALSE, custom |-> ""],
                 asset_infos |-> <<asset_a_denom, asset_b_denom>>]] }

\* Astroport liquid pooler configs of a payload
AstroportConfigs(asset_a_denom, asset_b_denom) ==
    { [ kind |-> "Astroport", pool_pair_type |-> "xyk",
        asset_a_denom |-> asset_a_denom, asset_b_denom |-> asset_b_denom,
        single_side_lp_limits |-> [asset_a_limit |-> 900000, asset_b_limit |-> 900000] ],
      [ kind |-> "Astroport", pool_pair_type |-> "stable",
        asset_a_denom |-> asset_b_denom, asset_b_denom |-> asset_a_denom,
        single_side_lp_limits |-> [asset_a_limit |-> 900000, asset_b_limit |-> 100000] ] }

\* verify_astroport_liquid_pooler_config up to the pool lookup
LpPair ==
    /\ pc = "liquid_pooler_config"
    /\ LET asset_a_denom == msg.party_a_config.native_denom
           asset_b_denom == msg.party_b_config.native_denom
       IN \E pair_response \in PairResponses(asset_a_denom, asset_b_denom),
             lp_cfg \in AstroportConfigs(asset_a_denom, asset_b_denom) :
            LET r == lp_pair_checks(ctx, "liquid_pooler_config", asset_a_denom,
                                    asset_b_denom, lp_cfg, pair_response)
            IN /\ Advance("liquid_pooler_config", r, "liquid_pooler_config:pool",
                          <<Looked("pair", pair_response)>>)
               /\ msg' = IF pair_response.st = "ok"
                         THEN WithField(msg, "liquid_pooler_config", lp_cfg)
                         ELSE WithField(msg, "liquid_pooler_config", [kind |-> "Astroport"])
    /\ UNCHANGED <<args, ret>>

\* responses of the pool query: the request fails, the body is no PoolInfo,
\* or it holds the two reserves
PoolResponses ==
    { LookupErr,
      [st |-> "ok", pool |-> [assets |-> <<>>]],
      [st |-> "ok", pool |-> [assets |-> << <<200>>, <<100>> >>]] }

\* pool_price_config of a payload: 2.0 with spread 0.1, and a price of 2^96
\* atomics
PoolPriceConfigs ==
    { [expected_spot_price |-> <<0, 0, 0, 0, 200>>,
       acceptable_price_spread |-> <<0, 0, 0, 0, 10>>],
      [expected_spot_price |-> <<336, 4395, 5935, 4337, 1426, 1625, 9228, 7>>,
       acceptable_price_spread |-> <<0, 0, 0, 0, 10>>] }

\* verify_astroport_liquid_pooler_config from the pool lookup on
LpPool ==
    /\ pc = "liquid_pooler_config:pool"
    /\ \E pool_response \in PoolResponses, pool_price_cfg \in PoolPriceConfigs :
         LET r == lp_pool_checks(ctx, "liquid_pooler_config",
                                 msg.party_a_config.contribution.amount,
                                 msg.party_b_config.contribution.amount,
                                 msg.liquid_pooler_config, pool_price_cfg,
                                 ctx.single_side_lp_limit_pct, pool_response)
         IN /\ Advance("liquid_pooler_config", r, "splits",
                       <<Looked("pool", pool_response)>>)
            /\ msg' = IF pool_response.st = "ok" /\ pool_response.pool.assets # <<>>
                      THEN WithField(msg, "pool_price_config", pool_price_cfg) ELSE msg
    /\ UNCHANGED <<args, ret>>

\* the Osmosis variant of liquid_pooler_config
LpOsmosis ==
    /\ pc = "liquid_pooler_config"
    /\ Advance("liquid_pooler_config", Ok(osmosis_checks(ctx, "liquid_pooler_config")),
               "splits", <<>>)
    /\ msg' = WithField(msg, "liquid_pooler_config", [kind |-> "Osmosis"])
    /\ UNCHANGED <<args, ret>>

TpSplits ==
    /\ pc = "splits"
    /\ \E splits \in SplitsChoices(msg.party_a_config.native_denom,
                                   msg.party_a_config.party_receiver_addr,
                                   msg.party_b_config.native_denom,
                                   msg.party_b_config.party_receiver_addr) :
         /\ Advance("splits",
                    splits_checks(ctx, "splits", splits,
                                  msg.party_a_config.native_denom,
                                  msg.party_a_config.party_receiver_addr,
                                  msg.party_b_config.native_denom,
                                  msg.party_b_config.party_receiver_addr),
                    "render", <<>>)
         /\ msg' = WithField(msg, "splits", splits)
    /\ UNCHANGED <<args, ret>>

\* execute_cmd, line 26
Render ==
    /\ pc = "render"
    /\ \E random_state \in RandomStates : report' = render_markdown_table(ctx, random_state)
    /\ pc' = "exit"
    /\ UNCHANGED <<ctx, msg, trace, result, lookup, args, ret>>

exit_status_ok(c) == "ok"

\* execute_cmd, lines 27-32: bail when an error is recorded
exit_status(c) == IF has_errors(c) THEN "err" ELSE "ok"

Exit ==
    /\ pc = "exit"
    /\ result' = exit_status(ctx)
    /\ pc' = "done"
    /\ UNCHANGED <<ctx, msg, trace, report, lookup, args, ret>>

Next ==
    \/ ConfigureContext
    \/ Dispatch
    \/ SwapValidate
    \/ TpLabel
    \/ TpCodeIds
    \/ TpShares
    \/ TpDepositDeadline
    \/ TpLockup
    \/ \E key \in PartyKeys : PartyPath(key, FALSE)
    \/ \E key \in PartyKeys : PartyChain(key, FALSE)
    \/ \E key \in PartyKeys : PartyNative(key, FALSE)
    \/ LpPair
    \/ LpPool
    \/ LpOsmosis
    \/ TpSplits
    \/ Render
    \/ Exit

Spec == Init /\ [][Next]_vars

(***************************************************************************)
(* Properties of a run                                                     *)
(***************************************************************************)
KnownContracts == {SINGLE_PARTY_POL, SWAP, TWO_PARTY_POL}

\* the steps of the two-party validator, in the order of its code
TwoPartySteps ==
    << "label", "contract_codes", "party_shares", "deposit_deadline", "lockup_config",
       "party_a_config", "party_b_config", "liquid_pooler_config", "splits" >>

\* the steps that wrote to the history, each named once
RECURSIVE StepsOf(_)
StepsOf(history) ==
    IF history = <<>> THEN <<>>
    ELSE IF Len(history) > 1 /\ history[1].step = history[2].step
    THEN StepsOf(Tail(history))
    ELSE <<history[1].step>> \o StepsOf(Tail(history))

IsPrefix(s, t) == Len(s) <= Len(t) /\ s = SubSeq(t, 1, Len(s))

\* the two-party validator has been entered
TwoPartyRun == args.contract = TWO_PARTY_POL /\ (pc = "label" \/ trace # <<>>)

\* the validator returned or the run ended
RunEnded == pc = "done"
Rendered == report # <<>>

\* a lookup whose request failed, or whose response the step cannot use: a
\* manifest with a code id that is no number, a path without a channel for
\* the resolver, a pair or a pool without assets
LookupUnusable(entry) ==
    \/ entry.st = "err"
    \/ entry.what = "manifest" /\ get_covenant_code_ids(entry.response).st = "panic"
    \/ entry.what = "path"
       /\ get_path_connection_and_channels(entry.response.path,
                                           ctx.party_a_channel_uses_wasm_port).st = "panic"
    \/ entry.what = "pair" /\ entry.response.pair.asset_infos = <<>>
    \/ entry.what = "pool" /\ entry.response.pool.assets = <<>>

NoLookupFailed == \A i \in 1..Len(lookup) : ~LookupUnusable(lookup[i])

\* the steps that make a lookup of a kind
LookupSteps(what) ==
    CASE what = "manifest" -> {"contract_codes"}
      [] what = "block" -> {"deposit_deadline", "lockup_config"}
      [] what \in {"pair", "pool"} -> {"liquid_pooler_config"}
      [] OTHER -> {"party_a_config", "party_b_config"}

\* why the last step of a run did not return: its lookup failed or gave a
\* response it cannot use, the sum of the shares overflows u128, or a price
\* does not fit the conversion to the 96-bit decimal
StepDidNotReturn ==
    \/ /\ lookup # <<>>
       /\ trace[Len(trace)].step \in LookupSteps(lookup[Len(lookup)].what)
       /\ LookupUnusable(lookup[Len(lookup)])
       /\ lookup[Len(lookup)].what \in {"manifest", "assets"}
             => lookup[Len(lookup)].st = "ok"
    \/ /\ trace[Len(trace)].step = "party_shares"
       /\ U128AddOverflows(msg.party_a_share, msg.party_b_share)
    \/ /\ trace[Len(trace)].step = "liquid_pooler_config"
       /\ "pool_price_config" \in DOMAIN msg
       /\ \/ ~FitsDecimal(msg.pool_price_config.expected_spot_price)
          \/ ~FitsDecimal(msg.pool_price_config.acceptable_price_spread)

Thm_C3_ExitStatus ==
    /\ pc = "exit" => Rendered
    /\ (RunEnded /\ Rendered) => /\ result \in {"ok", "err"}
                                 /\ result = "err" <=> DOMAIN ctx.errors # {}
    /\ (RunEnded /\ result = "ok") => Rendered /\ DOMAIN ctx.errors = {}
    /\ (trace # <<>> /\ trace[Len(trace)].st = "ok"
          /\ trace[Len(trace)].step \in {"splits", "swap"})
       => pc \in {"render", "exit", "done"} /\ (RunEnded => Rendered)

\* C3 witness: a two-party run that recorded checks only ended in success
Wit_C3_ExitStatus ==
    /\ TwoPartyRun
    /\ RunEnded
    /\ result = "ok"
    /\ Len(report) > 20
    /\ DOMAIN ctx.errors = {}

\* a lookup of the kinds whose Err the validators propagate
AbortingLookups == {"path", "chain", "pair", "pool", "block"}

\* C4: a failing path, chain-info, pair, pool or block-height lookup ends the
\* run at once: it is the last lookup, the step that made it wrote nothing
\* and no later step ran, the report is not rendered, the command fails.
Thm_C4_LookupAborts ==
    \A i \in 1..Len(lookup) :
        (lookup[i].what \in AbortingLookups /\ lookup[i].st = "err") =>
            /\ i = Len(lookup)
            /\ RunEnded
            /\ result = "err"
            /\ ~Rendered
            /\ trace[Len(trace)].st = "err"
            /\ trace[Len(trace)].checks = 0
            /\ trace[Len(trace)].errors = 0

\* C4 witness: the pool lookup failed in a run that had recorded checks and
\* errors
Wit_C4_LookupAborts ==
    /\ RunEnded
    /\ lookup # <<>>
    /\ lookup[Len(lookup)].what = "pool"
    /\ lookup[Len(lookup)].st = "err"
    /\ DOMAIN ctx.errors # {}
    /\ Has(ctx.checks, "liquid_pooler_config", "pool_address: verified")

\* C5: a contract type that is none of the three known ones ends the run in
\* failure before any validator runs: no step of a validator executes, the
\* accumulator holds no record, nothing is rendered.
Thm_C5_UnknownContract ==
    (args.contract \notin KnownContracts \cup {"none"}) =>
        /\ pc \in {"dispatch", "done"}
        /\ trace = <<>>
        /\ ctx.checks = EmptyMap
        /\ ctx.errors = EmptyMap
        /\ ~Rendered
        /\ RunEnded => result \in {"err", "panic"}

\* C5 witness: the match on an unknown contract type panicked
Wit_C5_UnknownContract ==
    /\ args.contract = "valence-covenant-unknown"
    /\ RunEnded
    /\ result = "panic"
    /\ lookup = <<>>

\* the swap validator has run
SwapRan == args.contract = SWAP /\ trace # <<>> /\ trace[1].step = "swap"

\* the records of the context that are about the field `label`
LabelRecords(map) ==
    LET keys == SortedKeys(DOMAIN map)
    IN Cardinality({ <<k, i>> \in (1..Len(keys)) \X (1..MaxRecords) :
                       /\ i <= Len(map[keys[k]])
                       /\ FirstPart(map[keys[k]][i]) = "label" })

\* C18: after the swap validator ran, the accumulator holds one record, a
\* record for the covenant label, which is an error iff the label is empty,
\* and no record for any other field; a swap run is not reported as a
\* success with a report that has no row.
Cex_C18_SwapLabel ==
    SwapRan =>
        /\ MapSize(ctx.checks) + MapSize(ctx.errors) = 1
        /\ LabelRecords(ctx.checks) + LabelRecords(ctx.errors) = 1
        /\ has_errors(ctx) <=> msg.label = ""
        /\ (result = "ok" => Len(report) > 1)

\* the payload of the end-to-end example as far as the run has read it:
\* shares of 0.4 and 0.6 and a deposit deadline at a block height that has
\* passed; its lockup expiration is a height before the deposit deadline
ExamplePayload ==
    /\ TwoPartyRun
    /\ "deposit_deadline" \in DOMAIN msg
    /\ msg.party_a_share = <<0, 0, 0, 0, 40>>
    /\ msg.party_b_share = <<0, 0, 0, 0, 60>>
    /\ msg.deposit_deadline = AtHeight(100)
    /\ msg.deposit_deadline.value < CurrentHeight
    /\ "lockup_config" \in DOMAIN msg =>
          msg.lockup_config.value < msg.deposit_deadline.value

\* the step has returned Ok
StepReturned(step) == \E i \in 1..Len(trace) : trace[i].step = step /\ trace[i].st = "ok"

ExampleErrors ==
    /\ Has(ctx.errors, "covenant",
           "deposit_deadline: invalid block height: should be in the future")
    /\ Has(ctx.errors, "covenant",
           "lockup_config: invalid lockup config: should be later than deposit deadline")
    /\ CountPrefix(ctx.errors, "covenant", "") >= 2
    /\ ~Has(ctx.errors, "covenant",
            "party_b_share: invalid share: sum of shares should be 1.0")

\* C16 as stated: the example payload produces at least two error records
\* under covenant (expired deadline, lockup before deposit), no share-sum
\* error and a failing run result.
Cex_C16_EndToEnd ==
    (ExamplePayload /\ RunEnded) => ExampleErrors /\ result \notin {"ok", "running"}

\* C16: every run on the example payload ends with a failing result; once
\* the lockup step has returned, which needs both latest-block lookups to
\* succeed, covenant holds the expired-deadline error and the
\* lockup-before-deposit error and no share-sum error.
Thm_C16_EndToEnd ==
    /\ (ExamplePayload /\ RunEnded) => result \notin {"ok", "running"}
    /\ (ExamplePayload /\ StepReturned("lockup_config")) => ExampleErrors

\* C16 witness: the example payload validated to the end, rendered, failed
Wit_C16_EndToEnd ==
    /\ ExamplePayload
    /\ StepReturned("splits")
    /\ RunEnded
    /\ Rendered
    /\ result = "err"
    /\ ExampleErrors

(***************************************************************************)
(* Forwarder contributions of the single-party validator                   *)
(* (validations/single_party_pol_covenant.rs, 529-559 and 653-682)         *)
(***************************************************************************)
\* the contribution of one forwarder leg: its denom, then its amount against
\* total * share; share_name is "native_share" for the lp forwarder and
\* "ls_share" for the ls forwarder
forwarder_contribution_check(c, key, contribution, remote_chain_denom, total, share, share_name, chain_info) ==
    IF contribution.denom # remote_chain_denom
    THEN Ok(invalid_field(c, key, "contribution",
                "invalid denom: expected " \o remote_chain_denom \o " | actual "
                    \o contribution.denom))
    ELSE IF ~FitsU96(contribution.amount) \/ ~FitsU96(total) THEN Panic(c)
    ELSE LET product == checked_mul(total, share)
         IN IF product.st = "none" THEN Panic(c)
            ELSE IF ~DecimalEqualsInteger(contribution.amount, product)
            THEN Ok(invalid_field(c, key, "contribution",
                        "invalid amount: should be equal to " \o share_name
                            \o " * contribution amount"))
            ELSE Ok(valid_field(c, key, "contribution",
                        FormatBigAmount(contribution.amount, chain_info.decimals)
                            \o " " \o chain_info.display))

(***************************************************************************)
(* SpecContribution: the contribution of a forwarder leg                   *)
(***************************************************************************)
\* covenant_party_config.contribution.amount: 1000000, 3,
\* 9998999999999999999999, 5 * 10^28 and 2^96
ContributionTotals ==
    { <<0, 100>>, <<3>>, <<9999, 9999, 9999, 9999, 9899, 99>>,
      <<0, 0, 0, 0, 0, 0, 0, 5>>, <<336, 4395, 5935, 4337, 1426, 1625, 9228, 7>> }

\* ls_share and native_share as converted at lines 436-462 (within i64):
\* 0, 0.35, 0.5, 0.65, 0.999999999999999999, 1.0 and 2.0
ContributionShares ==
    { BigZero, <<0, 0, 0, 0, 35>>, <<0, 0, 0, 0, 50>>, <<0, 0, 0, 0, 65>>,
      <<9999, 9999, 9999, 9999, 99>>, DecimalOne, <<0, 0, 0, 0, 200>> }

\* contribution.amount of a leg: 0, 350000, 500000, 650000, 1000000,
\* 9998999999999999990000 and 2^96
LegAmounts ==
    { BigZero, <<0, 35>>, <<0, 50>>, <<0, 65>>, <<0, 100>>,
      <<0, 9999, 9999, 9999, 9899, 99>>,
      <<336, 4395, 5935, 4337, 1426, 1625, 9228, 7>> }

LegDenoms == {"uatom", "untrn"}

InitContribution ==
    /\ pc = "call"
    /\ ctx = DefaultContext
    /\ msg = <<>>
    /\ trace = <<>>
    /\ report = <<>>
    /\ result = "running"
    /\ lookup = <<>>
    /\ \E leg \in {"lp_forwarder_config", "ls_forwarder_config"},
          total \in ContributionTotals, share \in ContributionShares,
          amount \in LegAmounts, denom \in LegDenoms :
         args = [leg |-> leg, total |-> total, share |-> share,
                 contribution |-> [denom |-> denom, amount |-> amount]]
    /\ ret = "none"

\* lines 529-559
LpForwarderContribution ==
    /\ pc = "call"
    /\ args.leg = "lp_forwarder_config"
    /\ LET r == forwarder_contribution_check(ctx, "lp_forwarder_config",
                    args.contribution, "uatom", args.total, args.share,
                    "native_share", ChainInfoOf("cosmoshub"))
       IN /\ ctx' = r.c
          /\ ret' = r.st
    /\ pc' = "returned"
    /\ UNCHANGED <<msg, trace, report, result, lookup, args>>

\* lines 653-682
LsForwarderContribution ==
    /\ pc = "call"
    /\ args.leg = "ls_forwarder_config"
    /\ LET r == forwarder_contribution_check(ctx, "ls_forwarder_config",
                    args.contribution, "uatom", args.total, args.share,
                    "ls_share", ChainInfoOf("cosmoshub"))
       IN /\ ctx' = r.c
          /\ ret' = r.st
    /\ pc' = "returned"
    /\ UNCHANGED <<msg, trace, report, result, lookup, args>>

NextContribution == LpForwarderContribution \/ LsForwarderContribution

SpecContribution == InitContribution /\ [][NextContribution]_vars

\* the leg's amount is the exact product total * share
ExactProduct ==
    BigMul(args.contribution.amount, BigPow10(18)) = BigMul(args.total, args.share)

ContributionValid == CountPrefix(ctx.checks, args.leg, "contribution: ") = 1
ContributionError ==
    CountPrefix(ctx.errors, args.leg, "contribution: invalid amount") = 1

\* C11: when the leg's denom matches, the contribution of a forwarder leg is
\* recorded valid iff its amount equals total contribution * share exactly
\* (no rounding), and any other amount records an error.
Cex_C11_Proportional ==
    (pc = "returned" /\ args.contribution.denom = "uatom") =>
        /\ ContributionValid <=> ExactProduct
        /\ ~ExactProduct => ContributionError

(***************************************************************************)
(* SpecPrice: the expected_spot_price step on pool amounts and prices      *)
(***************************************************************************)
\* amount of asset A in the pool: 200, 10^11, 2^96 - 1 and 2^96
PoolAmountsA ==
    { <<200>>, <<0, 0, 1000>>, U96Max,
      <<336, 4395, 5935, 4337, 1426, 1625, 9228, 7>> }

\* amount of asset B in the pool
PoolAmountsB == { <<>>, <<1>>, <<2>>, <<3>>, <<100>> }

\* expected_spot_price: 0, 1.8, 1.8999, 1.9, 2.0, 2.0999, 2.1, 2.2, 10.0, 103.0,
\* 120.0, 31666666666.666666666666666666 and 2^96 atomics
ExpectedSpotPrices ==
    { BigZero, <<0, 0, 0, 0, 180>>, <<0, 0, 0, 9000, 189>>, <<0, 0, 0, 0, 190>>,
      <<0, 0, 0, 0, 200>>, <<0, 0, 0, 9000, 209>>, <<0, 0, 0, 0, 210>>,
      <<0, 0, 0, 0, 220>>, <<0, 0, 0, 0, 1000>>,
      <<0, 0, 0, 0, 300, 1>>, <<0, 0, 0, 0, 2000, 1>>,
      <<6666, 6666, 6666, 6666, 6666, 6666, 1666, 3>>,
      <<336, 4395, 5935, 4337, 1426, 1625, 9228, 7>> }

InitPrice ==
    /\ pc = "call"
    /\ ctx = DefaultContext
    /\ msg = <<>>
    /\ trace = <<>>
    /\ report = <<>>
    /\ result = "running"
    /\ lookup = <<>>
    /\ \E validator \in {"two_party", "single_party"}, pool_a \in PoolAmountsA,
          pool_b \in PoolAmountsB, expected \in ExpectedSpotPrices :
         args = [validator |-> validator, pool_a |-> pool_a, pool_b |-> pool_b,
                 expected_spot_price |-> expected]
    /\ ret = "none"

TwoPartySpotPrice ==
    /\ pc = "call"
    /\ args.validator = "two_party"
    /\ LET r == expected_spot_price_step(ctx, "pool_price_config",
                    args.expected_spot_price, args.pool_a, args.pool_b)
       IN /\ ctx' = r.c
          /\ ret' = r.st
    /\ pc' = "returned"
    /\ UNCHANGED <<msg, trace, report, result, lookup, args>>

SinglePartySpotPrice ==
    /\ pc = "call"
    /\ args.validator = "single_party"
    /\ LET r == sp_expected_spot_price_step(ctx, "pool_price_config",
                    args.expected_spot_price, args.pool_a, args.pool_b)
       IN /\ ctx' = r.c
          /\ ret' = r.st
    /\ pc' = "returned"
    /\ UNCHANGED <<msg, trace, report, result, lookup, args>>

NextPrice == TwoPartySpotPrice \/ SinglePartySpotPrice

SpecPrice == InitPrice /\ [][NextPrice]_vars

\* currentPoolPrice * 0.95 <= expectedSpotPrice < currentPoolPrice * 1.05 for
\* currentPoolPrice = a / b, on the exact values:
\* 95 * a * 10^18 <= 100 * b * expected < 105 * a * 10^18
InExactBand ==
    LET scaled_a == BigMul(args.pool_a, BigPow10(18))
        scaled_e == BigMulSmall(BigMul(args.pool_b, args.expected_spot_price), 100)
    IN /\ args.pool_b # <<>>
       /\ BigLeq(BigMulSmall(scaled_a, 95), scaled_e)
       /\ BigLess(scaled_e, BigMulSmall(scaled_a, 105))

SpotPriceRecords == CountPrefix(ctx.checks, "pool_price_config", "expected_spot_price: ")

\* C12: the expected_spot_price step always writes exactly one record into
\* checks and never into errors; the record is the plain "within 5%" message
\* iff currentPoolPrice * 0.95 <= expectedSpotPrice < currentPoolPrice * 1.05
\* and a warning otherwise.
Cex_C12_PriceBand ==
    pc = "returned" =>
        /\ SpotPriceRecords = 1
        /\ ctx.errors = EmptyMap
        /\ InExactBand <=>
              Has(ctx.checks, "pool_price_config",
                  "expected_spot_price: within 5% range of current pool price")

(***************************************************************************)
(* SpecLimit: the single-side LP limits of the two-party validator         *)
(***************************************************************************)
\* contribution.amount of a party: 0, 10, 333, 1000, 7 * 10^28 + 40 and 2^96
LimitContributions ==
    { BigZero, <<10>>, <<333>>, <<1000>>, <<40, 0, 0, 0, 0, 0, 0, 7>>,
      <<336, 4395, 5935, 4337, 1426, 1625, 9228, 7>> }

\* single_side_lp_limit_pct of the command line
LimitPcts == {0, DEFAULT_SINGLE_SIDE_LP_LIMIT_PCT, 17, 100, 150}

\* single_side_lp_limits.asset_a_limit / asset_b_limit: 0, 5, 277, 299, 300,
\* 830, 900, 1000, 58100000000000000000000000033, ..034 and 2^96
ConfiguredLimits ==
    { BigZero, <<5>>, <<277>>, <<299>>, <<300>>, <<830>>, <<900>>, <<1000>>,
      <<33, 0, 0, 0, 0, 0, 8100, 5>>, <<34, 0, 0, 0, 0, 0, 8100, 5>>,
      <<336, 4395, 5935, 4337, 1426, 1625, 9228, 7>> }

InitLimit ==
    /\ pc = "call"
    /\ ctx = DefaultContext
    /\ msg = <<>>
    /\ trace = <<>>
    /\ report = <<>>
    /\ result = "running"
    /\ lookup = <<>>
    /\ \E asset \in {"a", "b"}, contribution \in LimitContributions,
          pct \in LimitPcts, limit \in ConfiguredLimits :
         args = [asset |-> asset, contribution |-> contribution, pct |-> pct,
                 limit |-> limit]
    /\ ret = "none"

\* Decimal::from of the party's contribution (two_party_pol_covenant.rs
\* 126-128), then the limit of one asset
LimitStep(field) ==
    IF ~FitsU96(args.contribution) THEN Panic(ctx)
    ELSE single_side_limit_check(ctx, "liquid_pooler_config", field,
                                 args.contribution, args.pct, args.limit)

AssetALimit ==
    /\ pc = "call"
    /\ args.asset = "a"
    /\ LET r == LimitStep("single_side_lp_limits_asset_a")
       IN /\ ctx' = r.c
          /\ ret' = r.st
    /\ pc' = "returned"
    /\ UNCHANGED <<msg, trace, report, result, lookup, args>>

AssetBLimit ==
    /\ pc = "call"
    /\ args.asset = "b"
    /\ LET r == LimitStep("single_side_lp_limits_asset_b")
       IN /\ ctx' = r.c
          /\ ret' = r.st
    /\ pc' = "returned"
    /\ UNCHANGED <<msg, trace, report, result, lookup, args>>

NextLimit == AssetALimit \/ AssetBLimit

SpecLimit == InitLimit /\ [][NextLimit]_vars

\* limit = round_away_from_zero(contribution - contribution * pct / 100) on
\* the exact value: 100 * (limit - 1) < contribution * (100 - pct) <= 100 * limit
\* while pct <= 100; above 100 the value is negative unless it is 0
LimitIsExact ==
    IF args.pct <= 100
    THEN LET n == BigMulSmall(args.contribution, 100 - args.pct)
             upper == BigMulSmall(args.limit, 100)
         IN /\ BigLeq(n, upper)
            /\ \/ args.limit = <<>>
               \/ BigLess(BigSub(upper, <<100>>), n)
    ELSE args.contribution = <<>> /\ args.limit = <<>>

LimitField == "single_side_lp_limits_asset_" \o args.asset

\* C13: for each asset the configured limit is recorded valid iff it equals
\* round_away_from_zero(contribution - contribution * limitPct / 100) to 0
\* decimals exactly, and an error otherwise.
Cex_C13_SingleSideLimit ==
    pc = "returned" =>
        IF LimitIsExact
        THEN /\ Has(ctx.checks, "liquid_pooler_config", LimitField \o ": verified")
             /\ ctx.errors = EmptyMap
        ELSE /\ CountPrefix(ctx.errors, "liquid_pooler_config", LimitField \o ": ") = 1
             /\ ctx.checks = EmptyMap

(***************************************************************************)
(* SpecExpiration: calls of verify_expiration under one chain height and   *)
(* one wall clock                                                          *)
(***************************************************************************)
\* the number of calls of a run (deposit_deadline, then lockup_config, in turn)
MaxCalls == 2

\* deadlines around the current height, and around the current second:
\* 999.9 s, 1000 s, 1000.9 s and 1001 s in nanoseconds
Deadlines ==
    << AtHeight(CurrentHeight - 1), AtHeight(CurrentHeight), AtHeight(CurrentHeight + 1),
       AtTime(<<0, 0, 9999>>), AtTime(<<0, 0, 0, 1>>), AtTime(<<0, 0, 9, 1>>),
       AtTime(<<0, 0, 10, 1>>), Never >>

Clocks == {ClockErr, Clock(CurrentTime)}

\* the fields the two-party validator passes: validate, lines 82-88
ExpirationFields == <<"deposit_deadline", "lockup_config">>

InitExpiration ==
    /\ pc = "call"
    /\ ctx = DefaultContext
    /\ msg = <<>>
    /\ trace = <<>>
    /\ report = <<>>
    /\ result = "running"
    /\ lookup = <<>>
    /\ \E block \in BlockResponses, now \in Clocks : args = [block |-> block, now |-> now]
    /\ ret = <<>>

\* one call for a deadline of the kind; the call that does not return Ok ends
\* the run
VerifyExpiration(kind) ==
    /\ pc = "call"
    /\ Len(ret) < MaxCalls
    /\ \E i \in 1..Len(Deadlines) :
         LET r == verify_expiration(ctx, "covenant", ExpirationFields[(Len(ret) % 2) + 1],
                                    Deadlines[i], args.block, args.now)
         IN /\ Deadlines[i].kind = kind
            /\ ctx' = r.c
            /\ ret' = Append(ret, [deadline |-> Deadlines[i], st |-> r.st])
            /\ pc' = IF r.st = "ok" THEN "call" ELSE "returned"
    /\ UNCHANGED <<msg, trace, report, result, lookup, args>>

VerifyAtHeight == VerifyExpiration("AtHeight")

VerifyAtTime == VerifyExpiration("AtTime")

VerifyNever == VerifyExpiration("Never")

NextExpiration == VerifyAtHeight \/ VerifyAtTime \/ VerifyNever

SpecExpiration == InitExpiration /\ [][NextExpiration]_vars

\* the records of a context, checks and errors
ExpirationChecks(c) == CountPrefix(c.checks, "covenant", "")
ExpirationErrors(c) == CountPrefix(c.errors, "covenant", "")

\* a call has been made in this step
Called == Len(ret') = Len(ret) + 1
LastCall == ret'[Len(ret')]

WroteValid == ExpirationChecks(ctx') = ExpirationChecks(ctx) + 1 /\ ctx'.errors = ctx.errors
WroteError == ExpirationErrors(ctx') = ExpirationErrors(ctx) + 1 /\ ctx'.checks = ctx.checks

\* the deadline is strictly greater than the current height / the current
\* time in seconds
StrictlyLater(deadline) ==
    CASE deadline.kind = "AtHeight" ->
           args.block.st = "ok" /\ deadline.value > args.block.height
      [] deadline.kind = "AtTime" ->
           /\ args.now.st = "ok"
           /\ BigLess(BigMul(BigFromInt(args.now.secs), BigPow10(9)), deadline.value)
      [] OTHER -> TRUE

\* the whole seconds of the deadline are strictly greater than the current
\* time in seconds
StrictlyLaterSeconds(deadline) ==
    CASE deadline.kind = "AtHeight" -> deadline.value > args.block.height
      [] deadline.kind = "AtTime" ->
           BigLess(BigFromInt(args.now.secs), BigDivPow10(deadline.value, 9))
      [] OTHER -> TRUE

\* the call cannot learn the current height or time
NoCurrentValue(deadline) ==
    \/ deadline.kind = "AtHeight" /\ args.block.st = "err"
    \/ deadline.kind = "AtTime" /\ args.now.st = "err"

\* C14 as stated: verify_expiration writes exactly one record per call, a
\* valid one iff the deadline is strictly greater than the current height or
\* the current time in seconds ("never" always), an error otherwise.
Cex_C14_Expiration ==
    [][Called => IF StrictlyLater(LastCall.deadline) THEN WroteValid ELSE WroteError]_vars

\* C14: a call of verify_expiration that can read the current height (for a
\* height deadline) or the clock (for a time deadline) writes exactly one
\* record: valid iff the height is strictly greater than the current height,
\* or the whole seconds of the time deadline are strictly greater than the
\* current time in whole seconds, or the deadline is "never"; an error
\* otherwise, so also for a deadline equal to the current height or second.
\* A call that cannot read them returns the failure and writes no record.
Thm_C14_Expiration ==
    [][Called =>
         IF NoCurrentValue(LastCall.deadline)
         THEN LastCall.st = "err" /\ ctx' = ctx
         ELSE /\ LastCall.st = "ok"
              /\ IF StrictlyLaterSeconds(LastCall.deadline) THEN WroteValid
                 ELSE WroteError]_vars

\* both calls made: a height deadline equal to the current height recorded as
\* an error, then a time deadline in the current second recorded as an error
Wit_C14_Expiration ==
    /\ Len(ret) = 2
    /\ ret[1].deadline.kind = "AtHeight" /\ ret[1].deadline.value = CurrentHeight
    /\ ret[2].deadline.kind = "AtTime" /\ ret[2].deadline.value = <<0, 0, 9, 1>>
    /\ ctx.errors = [covenant |->
          << "deposit_deadline: invalid block height: should be in the future",
             "lockup_config: invalid timestamp: should be in the future" >>]
    /\ ctx.checks = EmptyMap

(***************************************************************************)
(* SpecLockup: the deposit deadline and the lockup expiration of the       *)
(* two-party validator (validate, lines 82-98)                             *)
(***************************************************************************)
InitLockup ==
    /\ pc = "deposit_deadline"
    /\ ctx = DefaultContext
    /\ msg = <<>>
    /\ trace = <<>>
    /\ report = <<>>
    /\ result = "running"
    /\ lookup = <<>>
    /\ \E i \in 1..Len(Deadlines), j \in 1..Len(Deadlines), block \in BlockResponses, now \in Clocks :
         args = [deposit_deadline |-> Deadlines[i], lockup_config |-> Deadlines[j],
                 block |-> block, now |-> now]
    /\ ret = "none"

\* lines 82-84
LockupDepositDeadline ==
    /\ pc = "deposit_deadline"
    /\ LET r == verify_expiration(ctx, "covenant", "deposit_deadline",
                                  args.deposit_deadline, args.block, args.now)
       IN /\ ctx' = r.c
          /\ ret' = r.st
          /\ pc' = IF r.st = "ok" THEN "lockup_config" ELSE "returned"
    /\ UNCHANGED <<msg, trace, report, result, lookup, args>>

\* lines 86-98
LockupConfig ==
    /\ pc = "lockup_config"
    /\ LET r == lockup_checks(ctx, "covenant", args.lockup_config,
                              args.deposit_deadline, args.block, args.now)
       IN /\ ctx' = r.c
          /\ ret' = r.st
    /\ pc' = "returned"
    /\ UNCHANGED <<msg, trace, report, result, lookup, args>>

NextLockup == LockupDepositDeadline \/ LockupConfig

SpecLockup == InitLockup /\ [][NextLockup]_vars

\* the expiration has not been reached at the current height and time
InFuture(e) ==
    CASE e.kind = "AtHeight" -> e.value > CurrentHeight
      [] e.kind = "AtTime" -> BigLess(BigFromInt(CurrentTime), BigDivPow10(e.value, 9))
      [] OTHER -> TRUE

\* the order of a lockup expiration and a deposit deadline: two heights and
\* two times compare by their values, "never" is later than every height and
\* time, and a height and a time compare where one of them is reached and
\* the other is not
LockupIsLater(lockup_config, deposit_deadline) ==
    CASE lockup_config.kind = "Never" -> deposit_deadline.kind # "Never"
      [] deposit_deadline.kind = "Never" -> FALSE
      [] lockup_config.kind = "AtHeight" /\ deposit_deadline.kind = "AtHeight" ->
           lockup_config.value > deposit_deadline.value
      [] lockup_config.kind = "AtTime" /\ deposit_deadline.kind = "AtTime" ->
           BigLess(deposit_deadline.value, lockup_config.value)
      [] OTHER -> InFuture(lockup_config) /\ ~InFuture(deposit_deadline)

LockupIsNotLater(lockup_config, deposit_deadline) ==
    CASE lockup_config.kind = "Never" -> deposit_deadline.kind = "Never"
      [] deposit_deadline.kind = "Never" -> TRUE
      [] lockup_config.kind = "AtHeight" /\ deposit_deadline.kind = "AtHeight" ->
           lockup_config.value <= deposit_deadline.value
      [] lockup_config.kind = "AtTime" /\ deposit_deadline.kind = "AtTime" ->
           BigLeq(lockup_config.value, deposit_deadline.value)
      [] OTHER -> ~InFuture(lockup_config) /\ InFuture(deposit_deadline)

LockupOrderError ==
    Has(ctx.errors, "covenant",
        "lockup_config: invalid lockup config: should be later than deposit deadline")

\* C15: for every pair of deposit deadline and lockup expiration, of the same
\* kind or mixed, an error is recorded under covenant/lockup_config whenever
\* the lockup expiration is not strictly later than the deposit deadline, and
\* no such error is recorded when it is strictly later (checked on the runs in
\* which both expirations were verified).
Cex_C15_LockupOrder ==
    (pc = "returned" /\ ret = "ok") =>
        /\ LockupIsNotLater(args.lockup_config, args.deposit_deadline) => LockupOrderError
        /\ LockupIsLater(args.lockup_config, args.deposit_deadline) => ~LockupOrderError

(***************************************************************************)
(* SpecCodeId: calls of verify_code_id against one manifest                *)
(***************************************************************************)
\* the number of calls
MaxCodeCalls == 2

\* manifests after parsing: empty, one contract, two contracts
CodeIdMaps ==
    { EmptyMap, ("clock" :> 13), ("clock" :> 13) @@ ("two_party_pol_holder" :> 12) }

CodeFields == {"clock_code", "holder_code"}
CodeNames == {"clock", "two_party_pol_holder"}
CodeIds == {12, 13}

InitCodeId ==
    /\ pc = "call"
    /\ ctx = DefaultContext
    /\ msg = <<>>
    /\ trace = <<>>
    /\ report = <<>>
    /\ result = "running"
    /\ lookup = <<>>
    /\ \E code_ids \in CodeIdMaps : args = [code_ids |-> code_ids]
    /\ ret = <<>>

VerifyCodeId ==
    /\ pc = "call"
    /\ Len(ret) < MaxCodeCalls
    /\ \E field \in CodeFields, contract_name \in CodeNames, code_id \in CodeIds :
         /\ ctx' = verify_code_id(ctx, field, args.code_ids, contract_name, code_id)
         /\ ret' = Append(ret, [field |-> field, contract_name |-> contract_name,
                                code_id |-> code_id])
    /\ UNCHANGED <<pc, msg, trace, report, result, lookup, args>>

NextCodeId == VerifyCodeId

SpecCodeId == InitCodeId /\ [][NextCodeId]_vars

\* the step wrote exactly one record, m, under contract_codes of the map
\* named by kind and left the other map alone
WroteCodeRecord(kind, m) ==
    LET before == IF kind = "checks" THEN ctx.checks ELSE ctx.errors
        after == IF kind = "checks" THEN ctx'.checks ELSE ctx'.errors
        list == after["contract_codes"]
    IN /\ DOMAIN after = {"contract_codes"}
       /\ Len(list) = MapSize(before) + 1
       /\ list[Len(list)] = m
       /\ MapSize(after) = MapSize(before) + 1
       /\ IF kind = "checks" THEN ctx'.errors = ctx.errors ELSE ctx'.checks = ctx.checks

CodeCall == ret'[Len(ret')]

\* C17: every call of verify_code_id writes exactly one record under
\* contract_codes: the field-level check "verified" iff the manifest maps the
\* contract name to the declared id, the field-level error "invalid code id"
\* iff the name is present with another id, and the key-level error
\* "unknown contract name <name>", with no field, iff the name is absent.
Thm_C17_CodeId ==
    [][Len(ret') = Len(ret) + 1 =>
         IF CodeCall.contract_name \notin DOMAIN args.code_ids
         THEN WroteCodeRecord("errors", "unknown contract name " \o CodeCall.contract_name)
         ELSE IF args.code_ids[CodeCall.contract_name] = CodeCall.code_id
         THEN WroteCodeRecord("checks", CodeCall.field \o ": verified")
         ELSE WroteCodeRecord("errors", CodeCall.field \o ": invalid code id")]_vars

\* two calls made: a contract name the manifest lacks, then a matching id
Wit_C17_CodeId ==
    /\ Len(ret) = 2
    /\ args.code_ids = ("clock" :> 13)
    /\ ctx.errors = [contract_codes |-> <<"unknown contract name two_party_pol_holder">>]
    /\ ctx.checks = [contract_codes |-> <<"clock_code: verified">>]

(***************************************************************************)
(* The splits step of a run (validate, lines 151-194)                      *)
(***************************************************************************)
\* the splits step was the last step of the validator to return
SplitsRan == trace # <<>> /\ trace[Len(trace)].step = "splits"

RecordsUnder(map, key) == IF key \in DOMAIN map THEN Len(map[key]) ELSE 0

\* the denoms are the two native denoms; for each denom the receivers are the
\* two final receivers and their weights sum to 1.0
SplitIsFair(splits, party_a, party_b) ==
    /\ DOMAIN splits = {party_a.native_denom, party_b.native_denom}
    /\ Cardinality(DOMAIN splits) = 2
    /\ \A denom \in DOMAIN splits :
         /\ DOMAIN splits[denom] = {party_a.party_receiver_addr, party_b.party_receiver_addr}
         /\ ReceiversSum(splits[denom]) = DecimalOne

\* C19: the splits step writes exactly one record under splits, and it is a
\* valid record iff the denoms of the split map are the two parties' native
\* denoms and, for each denom, the receivers are the two parties' final
\* receivers with weights that sum to 1.0 (0.5 and 0.5 on both denoms is
\* such a split); otherwise the record is an error.
Cex_C19_Splits ==
    SplitsRan =>
        /\ RecordsUnder(ctx.checks, "splits") + RecordsUnder(ctx.errors, "splits") = 1
        /\ RecordsUnder(ctx.checks, "splits") = 1
             <=> SplitIsFair(msg.splits, msg.party_a_config, msg.party_b_config)

(***************************************************************************)
(* SpecTwice: a run of the validator and a second run on the same inputs   *)
(***************************************************************************)
\* the payloads of the first run: metadata without the wasm-port flag, a
\* label, shares other than 0.35 and 0.6, a deposit deadline at height 300
FirstRunInputs ==
    /\ ~ctx.party_a_channel_uses_wasm_port
    /\ "label" \in DOMAIN msg => msg.label # ""
    /\ "party_a_share" \in DOMAIN msg => msg.party_a_share # <<0, 0, 0, 0, 35>>
    /\ "deposit_deadline" \in DOMAIN msg => msg.deposit_deadline = AtHeight(300)

\* the first run as it ended
FirstRun == ret.first_run

\* what the second run has read so far is what the first run read
SameInputsSoFar ==
    /\ DOMAIN args \subseteq DOMAIN FirstRun.args
    /\ \A name \in DOMAIN args \ {"contract"} : args[name] = FirstRun.args[name]
    /\ DOMAIN msg \subseteq DOMAIN FirstRun.msg
    /\ \A field \in DOMAIN msg : msg[field] = FirstRun.msg[field]
    /\ Len(lookup) <= Len(FirstRun.lookup)
    /\ \A i \in 1..Len(lookup) : lookup[i] = FirstRun.lookup[i]

\* the second run is under way or has ended
SecondRun == "first_run" \in DOMAIN ret

Replayed == IF SecondRun THEN SameInputsSoFar ELSE FirstRunInputs

\* a step of either run
RunStep == Next /\ Replayed'

\* the first run has ended: its outcome is kept and the command is run again
Again ==
    /\ pc = "done"
    /\ ~SecondRun
    /\ ret' = [first_run |-> [ctx |-> ctx, report |-> report, result |-> result,
                              msg |-> msg, lookup |-> lookup, args |-> args]]
    /\ pc' = "start"
    /\ ctx' = DefaultContext
    /\ msg' = <<>>
    /\ trace' = <<>>
    /\ report' = <<>>
    /\ result' = "running"
    /\ lookup' = <<>>
    /\ args' = [contract |-> "none"]

NextTwice == RunStep \/ Again

SpecTwice == Init /\ [][NextTwice]_vars

\* both runs have ended and read the same metadata, payload and responses
SameInputs ==
    /\ SecondRun
    /\ pc = "done"
    /\ DOMAIN args = DOMAIN FirstRun.args
    /\ \A name \in DOMAIN args \ {"contract"} : args[name] = FirstRun.args[name]
    /\ DOMAIN msg = DOMAIN FirstRun.msg
    /\ \A field \in DOMAIN msg : msg[field] = FirstRun.msg[field]
    /\ lookup = FirstRun.lookup

SameList(a, b) == Len(a) = Len(b) /\ \A i \in 1..Len(a) : a[i] = b[i]

SameMap(a, b) == DOMAIN a = DOMAIN b /\ \A key \in DOMAIN a : SameList(a[key], b[key])

\* C20: two runs of the validator on the same metadata, the same
\* instantiation message and the same collaborator responses (heights and
\* times included) end with the same checks and errors maps, each key's
\* records in the same order, the same rendered report and the same result.
Thm_C20_Determinism ==
    SameInputs =>
        /\ SameMap(ctx.checks, FirstRun.ctx.checks)
        /\ SameMap(ctx.errors, FirstRun.ctx.errors)
        /\ SameList(report, FirstRun.report)
        /\ result = FirstRun.result

\* both runs went through the whole two-party pipeline on the same inputs
\* and rendered a report with several keys among the checks and the errors
Wit_C20_Determinism ==
    /\ SameInputs
    /\ "splits" \in DOMAIN msg
    /\ Cardinality(DOMAIN ctx.checks) >= 3
    /\ Cardinality(DOMAIN ctx.errors) >= 2
    /\ Len(report) > 5

(***************************************************************************)
(* SpecRender: render_markdown_table on the accumulators that the record   *)
(* operations build                                                        *)
(***************************************************************************)
RenderKeys == {"covenant", "pool_price_config"}

\* messages as the validators store them: "field: text"; the last is the
\* warning of the single-party validator (single_party_pol_covenant.rs
\* 847-852), whose format string holds a line break
RenderMessages ==
    { "label: valid",
      "lockup_config: verified (note: never expires)",
      "expected_spot_price: 1.2000 | current_pool_price: 1.0000\noutside of 5% range of current pool price" }

InitRender ==
    /\ pc = "record"
    /\ ctx = DefaultContext
    /\ msg = <<>>
    /\ trace = <<>>
    /\ report = <<>>
    /\ result = "running"
    /\ lookup = <<>>
    /\ args = <<>>
    /\ ret = <<>>

\* one record operation of a validator
RecordMessage ==
    /\ pc = "record"
    /\ MapSize(ctx.checks) + MapSize(ctx.errors) < MaxRecords
    /\ \E key \in RenderKeys, message \in RenderMessages :
         \/ ctx' = valid(ctx, key, message)
         \/ ctx' = invalid(ctx, key, message)
    /\ UNCHANGED <<pc, msg, trace, report, result, lookup, args, ret>>

\* execute_cmd, line 26
RenderReport ==
    /\ pc = "record"
    /\ \E random_state \in RandomStates : report' = render_markdown_table(ctx, random_state)
    /\ pc' = "rendered"
    /\ UNCHANGED <<ctx, msg, trace, result, lookup, args, ret>>

NextRender == RecordMessage \/ RenderReport

SpecRender == InitRender /\ [][NextRender]_vars

\* the number of rows printed for the keys of a map that precede key
RowsBefore(map, key) ==
    MapSize([k \in { j \in DOMAIN map : StrLess(j, key) } |-> map[k]])

\* the rows of a map are printed from row `first` on: key after key in
\* ascending order, the messages of a key in the order of their insertion,
\* the key on the first row of its group only
SectionAt(map, first, status) ==
    \A key \in DOMAIN map : \A i \in 1..Len(map[key]) :
        LET at == first + RowsBefore(map, key) + i - 1
        IN /\ at <= Len(report)
           /\ report[at] = Row(IF i = 1 THEN key ELSE "", FirstPart(map[key][i]),
                               ReplacePipe(LastPart(map[key][i])), status)

\* the lines that println! writes for a row
LineBreaks(s) == Cardinality({ i \in 1..Len(s) : SubSeq(s, i, i) = "\n" })

PrintedLines(row) == 1 + LineBreaks(row.key) + LineBreaks(row.field) + LineBreaks(row.message)

\* after the header, the rows of the checks, then the rows of the errors,
\* one row for each message
ReportLayout ==
    pc = "rendered" =>
        /\ Len(report) = 1 + MapSize(ctx.checks) + MapSize(ctx.errors)
        /\ SectionAt(ctx.checks, 2, "valid")
        /\ SectionAt(ctx.errors, 2 + MapSize(ctx.checks), "error")

\* C21: in the rendered report every row of a check precedes every row of an
\* error; in each section the rows of a key are contiguous, the keys ascend,
\* the messages of a key keep their insertion order and the key is printed on
\* the first row of its group only; every recorded message yields exactly one
\* row of the table, that is one printed line.
Cex_C21_Rendering ==
    /\ ReportLayout
    /\ pc = "rendered" => \A i \in 2..Len(report) : PrintedLines(report[i]) = 1

(***************************************************************************)
(* The manifest lookup of a run (verify_two_party_pol_covenant_code_ids)   *)
(***************************************************************************)
\* the request for the manifest of the release failed
ManifestFetchFailed ==
    \E i \in 1..Len(lookup) : lookup[i].what = "manifest" /\ lookup[i].st = "err"

\* C22: a failed fetch of the release manifest ends the run at once: the
\* command fails, the accumulator holds no record for the failure, no later
\* step ran and nothing is rendered.
Cex_C22_ManifestFailure ==
    ManifestFetchFailed =>
        /\ pc = "done"
        /\ result = "err"
        /\ "contract_codes" \notin DOMAIN ctx.errors
        /\ lookup[Len(lookup)].what = "manifest"
        /\ trace[Len(trace)].step = "contract_codes"
        /\ report = <<>>

(***************************************************************************)
(* The contribution field of a party (verify_party_config)                 *)
(***************************************************************************)
\* verify_party_config wrote the denom, contribution and address fields
PartyChecked ==
    /\ args.key \in DOMAIN msg
    /\ "contribution" \in DOMAIN msg[args.key]
    /\ Len(lookup) >= 2

CheckedParty == msg[args.key]

\* the base denom resolved from the registries for the party: that of the
\* asset found for the party's denom, the native denom of the party's chain
\* when the denom is the chain's or is not known
RegistryBaseDenom ==
    LET info == lookup[Len(lookup) - 1].response.info
        assets == lookup[Len(lookup)].response
        p == CheckedParty
    IN IF p.kind = "Interchain"
       THEN ResolveRemoteDenom(info, assets, p.remote_chain_denom).base
       ELSE IF /\ p.native_denom # info.denom
               /\ StartsWith(p.native_denom, "ibc/")
               /\ get_chain_asset_info(assets, p.native_denom).st = "ok"
       THEN NativeBaseDenom(get_chain_asset_info(assets, p.native_denom).asset)
       ELSE info.denom

\* the denom of the party that the resolution step looked up
PartyDenom ==
    IF CheckedParty.kind = "Interchain" THEN CheckedParty.remote_chain_denom
    ELSE CheckedParty.native_denom

PartyContributionValid == CountPrefix(ctx.checks, args.key, "contribution: ") > 0

UnknownDenomRecorded ==
    \/ Has(ctx.errors, args.key, "remote_chain_denom: unknown denom")
    \/ Has(ctx.errors, args.key, "native_denom: unknown denom")

\* C23: the contribution of a party is recorded valid iff its denom is the
\* base denom resolved from the registries for the party's chain; when the
\* denom resolution recorded "unknown denom", a contribution in that
\* unresolved denom is not recorded valid.
Cex_C23_Contribution ==
    PartyChecked =>
        /\ PartyContributionValid <=> CheckedParty.contribution.denom = RegistryBaseDenom
        /\ (UnknownDenomRecorded /\ CheckedParty.contribution.denom = PartyDenom)
             => ~PartyContributionValid

(***************************************************************************)
(* SpecSingle: the covenant_party_config and ls_info blocks of the         *)
(* single-party validator (validations/single_party_pol_covenant.rs,       *)
(* lines 112-390)                                                          *)
(***************************************************************************)
\* filter_map(|c| if c.<side>.port_id == TRANSFER_PORT_ID ..).next(): the
\* index of the first channel whose port on that side is "transfer"
FirstTransferOn(channels, side) ==
    LET T(c) == c[side].port_id = TRANSFER_PORT_ID
    IN FirstIndex(channels, T)

\* the triple from the two filters: the connection id of the hub's side, the
\* first transfer channel of side `first`, the first of side `second`
TripleFrom(path_info, hub, first, second) ==
    IF \/ FirstTransferOn(path_info.channels, first) = 0
       \/ FirstTransferOn(path_info.channels, second) = 0
    THEN NoChannel
    ELSE Resolved(path_info[hub].connection_id,
            path_info.channels[FirstTransferOn(path_info.channels, first)][first].channel_id,
            path_info.channels[FirstTransferOn(path_info.channels, second)][second].channel_id)

\* lines 117-174: connection id, host-to-party and party-to-host channel ids
sp_party_channels(path_info) ==
    IF path_info.chain_1.chain_name = NEUTRON_CHAIN_NAME
    THEN TripleFrom(path_info, "chain_1", "chain_1", "chain_2")
    ELSE TripleFrom(path_info, "chain_2", "chain_2", "chain_1")

\* lines 282-341: connection id, the channel id of the ls chain's side and
\* the reverse channel id
sp_ls_channels(path_info) ==
    IF path_info.chain_1.chain_name = NEUTRON_CHAIN_NAME
    THEN TripleFrom(path_info, "chain_1", "chain_2", "chain_1")
    ELSE TripleFrom(path_info, "chain_2", "chain_1", "chain_2")

\* lines 176-212: the three path fields of covenant_party_config
sp_party_path_checks(c, key, p, path_response) ==
    IF path_response.st = "err" THEN Err(c)
    ELSE IF sp_party_channels(path_response.path).st = "panic" THEN Panic(c)
    ELSE Ok(verify_equals(
              verify_equals(
                verify_equals(c, key, "party_chain_connection_id",
                              sp_party_channels(path_response.path).connection_id,
                              p.party_chain_connection_id, "connection id"),
                key, "host_to_party_chain_channel_id",
                sp_party_channels(path_response.path).forward,
                p.host_to_party_chain_channel_id, "channel id"),
              key, "party_to_host_chain_channel_id",
              sp_party_channels(path_response.path).reverse,
              p.party_to_host_chain_channel_id, "channel id"))

\* lines 214-270: chain info, remote_chain_denom, native_denom, contribution
sp_party_denom_checks(c, key, p, chain_response) ==
    IF chain_response.st = "err" THEN Err(c)
    ELSE Ok(IF p.contribution.denom # p.remote_chain_denom
            THEN invalid_field(
                   verify_equals(
                     verify_equals(c, key, "remote_chain_denom", chain_response.info.denom,
                                   p.remote_chain_denom, "denom"),
                     key, "native_denom",
                     IbcDenom(p.host_to_party_chain_channel_id, p.remote_chain_denom),
                     p.native_denom, "denom"),
                   key, "contribution",
                   "invalid denom: expected " \o p.remote_chain_denom \o " | actual "
                       \o p.contribution.denom)
            ELSE valid_field(
                   verify_equals(
                     verify_equals(c, key, "remote_chain_denom", chain_response.info.denom,
                                   p.remote_chain_denom, "denom"),
                     key, "native_denom",
                     IbcDenom(p.host_to_party_chain_channel_id, p.remote_chain_denom),
                     p.native_denom, "denom"),
                   key, "contribution",
                   FormatAmount(p.contribution.amount, chain_response.info.decimals)
                       \o " " \o chain_response.info.display))

\* lines 343-361: the two path fields of ls_info
sp_ls_path_checks(c, key, ls_info, path_response) ==
    IF path_response.st = "err" THEN Err(c)
    ELSE IF sp_ls_channels(path_response.path).st = "panic" THEN Panic(c)
    ELSE Ok(verify_equals(
              verify_equals(c, key, "ls_neutron_connection_id",
                            sp_ls_channels(path_response.path).connection_id,
                            ls_info.ls_neutron_connection_id, "connection id"),
              key, "ls_chain_to_neutron_channel_id",
              sp_ls_channels(path_response.path).forward,
              ls_info.ls_chain_to_neutron_channel_id, "channel id"))

\* lines 363-390: ls_denom (the `?` returns the Err of get_chain_asset_info,
\* a failed request and an asset that is not found alike), ls_denom_on_neutron
sp_ls_denom_checks(c, key, ls_info, assets_response, reverse_channel_id) ==
    IF get_chain_asset_info(assets_response, ls_info.ls_denom).st = "err" THEN Err(c)
    ELSE Ok(verify_equals(
              IF get_chain_asset_info(assets_response, ls_info.ls_denom).asset.base
                   = ls_info.ls_denom
              THEN valid_field(c, key, "ls_denom", "verified")
              ELSE invalid_field(c, key, "ls_denom",
                                 "could not verify denom: " \o ls_info.ls_denom),
              key, "ls_denom_on_neutron",
              IbcDenom(reverse_channel_id, ls_info.ls_denom),
              ls_info.ls_denom_on_neutron, "denom"))

\* channel lists of up to MaxChannels entries over PartyPortIds
SinglePartyChannelLists ==
    UNION { { [i \in 1..n |-> Channel(i, ports[i][1], ports[i][2])] :
                ports \in [1..n -> PartyPortIds \X PartyPortIds] } :
            n \in 0..MaxChannels }

\* responses of a path lookup: the request fails, or the file of the pair
SinglePartyPathResponses(party) ==
    {LookupErr} \cup { PathFound(RegistryPath(party, chs)) : chs \in SinglePartyChannelLists }

InitSingle ==
    /\ pc = "covenant_party_config"
    /\ \E party \in {"cosmoshub", "osmosis"} :
         ctx = [DefaultContext EXCEPT !.party_a_chain_name = party]
    /\ msg = <<>>
    /\ trace = <<>>
    /\ report = <<>>
    /\ result = "running"
    /\ lookup = <<>>
    /\ args = [contract |-> SINGLE_PARTY_POL]
    /\ ret = <<>>

SpPartyPath ==
    /\ pc = "covenant_party_config"
    /\ \E response \in SinglePartyPathResponses(ctx.party_a_chain_name),
          h2p \in ChannelIds :
         LET p == [ party_chain_connection_id |-> HubConnectionId(ctx.party_a_chain_name),
                    host_to_party_chain_channel_id |-> h2p,
                    party_to_host_chain_channel_id |-> PartyChannelId(ctx.party_a_chain_name) ]
         IN /\ Advance("covenant_party_config",
                       sp_party_path_checks(ctx, "covenant_party_config", p, response),
                       "covenant_party_config:chain", <<Looked("path", response)>>)
            /\ msg' = IF response.st = "ok"
                      THEN WithField(msg, "covenant_party_config", p) ELSE msg
            /\ ret' = IF response.st = "ok"
                      THEN WithField(ret, "covenant_party_config",
                                     sp_party_channels(response.path))
                      ELSE ret
    /\ UNCHANGED args

SpPartyDenoms ==
    /\ pc = "covenant_party_config:chain"
    /\ \E chain_ok \in BOOLEAN, denom \in {ChainInfoOf(ctx.party_a_chain_name).denom, "uxyz"} :
         LET p == WithField(WithField(WithField(msg.covenant_party_config,
                     "remote_chain_denom", ChainInfoOf(ctx.party_a_chain_name).denom),
                     "native_denom",
                     IbcDenom(msg.covenant_party_config.host_to_party_chain_channel_id,
                              ChainInfoOf(ctx.party_a_chain_name).denom)),
                     "contribution", [denom |-> denom, amount |-> 1000000])
             chain == get_chain_info(chain_ok, ctx.party_a_chain_name)
         IN /\ Advance("covenant_party_config",
                       sp_party_denom_checks(ctx, "covenant_party_config", p, chain),
                       "ls_info", <<Looked("chain", chain)>>)
            /\ msg' = IF chain_ok THEN WithField(msg, "covenant_party_config", p) ELSE msg
    /\ UNCHANGED <<args, ret>>

SpLsPath ==
    /\ pc = "ls_info"
    /\ \E response \in SinglePartyPathResponses(STRIDE_CHAIN_NAME) :
         LET ls_info == [ ls_neutron_connection_id |-> HubConnectionId(STRIDE_CHAIN_NAME),
                          ls_chain_to_neutron_channel_id |-> PartyChannelId(STRIDE_CHAIN_NAME) ]
         IN /\ Advance("ls_info", sp_ls_path_checks(ctx, "ls_info", ls_info, response),
                       "ls_info:denom", <<Looked("path", response)>>)
            /\ msg' = IF response.st = "ok" THEN WithField(msg, "ls_info", ls_info) ELSE msg
            /\ ret' = IF response.st = "ok"
                      THEN WithField(ret, "ls_info", sp_ls_channels(response.path))
                      ELSE ret
    /\ UNCHANGED args

\* ls_denom of a payload: stride's stATOM by its base, by its symbol, and a
\* denom the asset list does not hold
LsDenoms == {"stuatom", "stATOM", "stuxyz"}

SpLsDenom ==
    /\ pc = "ls_info:denom"
    /\ \E assets_ok \in BOOLEAN, ls_denom \in LsDenoms :
         LET ls_info == WithField(WithField(msg.ls_info, "ls_denom", ls_denom),
                                  "ls_denom_on_neutron",
                                  IbcDenom(HubChannelId(STRIDE_CHAIN_NAME), "stuatom"))
             assets == AssetsResponse(assets_ok, STRIDE_CHAIN_NAME)
         IN /\ Advance("ls_info",
                       sp_ls_denom_checks(ctx, "ls_info", ls_info, assets, ret.ls_info.reverse),
                       "remote_chain_splitter_config", <<Looked("assets", assets)>>)
            /\ msg' = WithField(msg, "ls_info", ls_info)
    /\ UNCHANGED <<args, ret>>

NextSingle == SpPartyPath \/ SpPartyDenoms \/ SpLsPath \/ SpLsDenom

SpecSingle == InitSingle /\ [][NextSingle]_vars

\* the asset registry answered the lookup of ls_denom and holds no such asset
LsDenomNotFound ==
    /\ Len(lookup) > 0
    /\ lookup[Len(lookup)].what = "assets"
    /\ lookup[Len(lookup)].st = "ok"
    /\ get_chain_asset_info(lookup[Len(lookup)].response, msg.ls_info.ls_denom).st = "err"

\* C24: a denom the asset registry does not know never aborts the run: when
\* the lookup of the single-party ls_denom reports asset not found, a keyed
\* error for ls_denom is recorded under ls_info and the run goes on to the
\* next step.
Cex_C24_UnknownDenom ==
    LsDenomNotFound =>
        /\ CountPrefix(ctx.errors, "ls_info", "ls_denom: ") > 0
        /\ result = "running"
        /\ pc = "remote_chain_splitter_config"

(***************************************************************************)
(* The port predicate used for party B (verify_party_config)               *)
(***************************************************************************)
\* C25: the contract-port flag applies to party A only: whatever the value of
\* party_a_channel_uses_wasm_port, the connection and channels of party B are
\* those the resolver gives with the default predicate (counterpart port
\* exactly "transfer").
Cex_C25_PartyBDefaultPredicate ==
    (args.key = "party_b_config" /\ PartyPathFetched) =>
        ret.party_b_config = get_path_connection_and_channels(FetchedPath, FALSE)

(***************************************************************************)
(* Prices above 2^63 atomics in the expected_spot_price step               *)
(***************************************************************************)
\* a pool of 200 and 2 (currentPoolPrice = 100) checked against an expected
\* price of 103.0 or of 120.0
PriceAgainstHundred(expected) ==
    /\ pc = "returned"
    /\ args.pool_a = <<200>>
    /\ args.pool_b = <<2>>
    /\ args.expected_spot_price = expected

\* C26: in both validators, currentPoolPrice = 100 with expectedSpotPrice =
\* 103 records one passing check without warning text and expectedSpotPrice =
\* 120 records one passing check with a warning; neither value ends the run
\* with a conversion failure.
Cex_C26_PriceRange ==
    /\ (PriceAgainstHundred(<<0, 0, 0, 0, 300, 1>>) \/ PriceAgainstHundred(<<0, 0, 0, 0, 2000, 1>>))
         => (ret = "ok" /\ SpotPriceRecords = 1 /\ ctx.errors = EmptyMap)
    /\ PriceAgainstHundred(<<0, 0, 0, 0, 300, 1>>)
         => Has(ctx.checks, "pool_price_config",
                "expected_spot_price: within 5% range of current pool price")
    /\ PriceAgainstHundred(<<0, 0, 0, 0, 2000, 1>>)
         => ~Has(ctx.checks, "pool_price_config",
                 "expected_spot_price: within 5% range of current pool price")

(***************************************************************************)
(* The channel pair of the single-party validator                          *)
(***************************************************************************)
\* the forward and the reverse id of a resolved triple are the two ids of
\* one entry of the channel list
PairFromOneEntry(triple, channels) ==
    \E i \in 1..Len(channels) :
        {channels[i].chain_1.channel_id, channels[i].chain_2.channel_id}
            = {triple.forward, triple.reverse}

\* the triple resolved for `key` from the path fetched by the n-th lookup
ResolvedFrom(key, n) ==
    /\ key \in DOMAIN ret
    /\ ret[key].st = "ok"
    /\ Len(lookup) >= n

\* C27: in the single-party validator the expected host-to-party and
\* party-to-host channel ids always come from one and the same channel entry
\* of the fetched path, for every channel list: the pair (forward, reverse) is
\* never assembled from two different entries.
Cex_C27_OneEntry ==
    /\ ResolvedFrom("covenant_party_config", 1)
         => PairFromOneEntry(ret.covenant_party_config, lookup[1].response.path.channels)
    /\ ResolvedFrom("ls_info", 3)
         => PairFromOneEntry(ret.ls_info, lookup[3].response.path.channels)

(***************************************************************************)
(* Fields with a record in both maps (validations/mod.rs, valid_field and  *)
(* invalid_field)                                                          *)
(***************************************************************************)
\* the field of a record written as "{field}: {message}"
FieldOf(m) ==
    LET At(i) == SubSeq(m, i, i + 1) = ": "
    IN SubSeq(m, 1, (CHOOSE i \in 1..Len(m) : At(i) /\ \A j \in 1..(i - 1) : ~At(j)) - 1)

\* the fields that have a record under `key` in `map`
FieldsUnder(map, key) ==
    IF key \notin DOMAIN map THEN {}
    ELSE { FieldOf(map[key][i]) : i \in { j \in 1..Len(map[key]) : Contains(map[key][j], ": ") } }

\* C28: after a completed two-party run, no (key, field) pair has both a
\* record in checks and a record in errors: each field of the report is
\* either valid or invalid, never both (in particular covenant/lockup_config).
Cex_C28_ValidOrInvalid ==
    (args.contract = TWO_PARTY_POL /\ Rendered) =>
        \A key \in DOMAIN ctx.checks :
            FieldsUnder(ctx.checks, key) \cap FieldsUnder(ctx.errors, key) = {}

(***************************************************************************)
(* SpecPair: the pair lookup and the asset denoms of the liquidity-pool    *)
(* check (validations/astroport.rs, lines 27-117)                          *)
(***************************************************************************)
\* denoms of a pool or of a config: the two parties' native denoms and a
\* denom of neither party
PairDenoms == {"uatom", "ustrd", "uxyz"}

\* responses of the pair query over PairDenoms
WidePairResponses ==
    { LookupErr, [st |-> "ok", pair |-> DefaultPair] }
    \cup { [st |-> "ok",
            pair |-> [pair_type |-> [xyk |-> TRUE, stable |-> FALSE, custom |-> ""],
                      asset_infos |-> <<a, b>>]] : a \in PairDenoms, b \in PairDenoms }

InitPair ==
    /\ pc = "call"
    /\ ctx = DefaultContext
    /\ msg = <<>>
    /\ trace = <<>>
    /\ report = <<>>
    /\ result = "running"
    /\ lookup = <<>>
    /\ \E a \in PairDenoms, b \in PairDenoms, pair_response \in WidePairResponses :
         args = [ asset_a_denom |-> "uatom", asset_b_denom |-> "ustrd",
                  lp_cfg |-> [kind |-> "Astroport", pool_pair_type |-> "xyk",
                              asset_a_denom |-> a, asset_b_denom |-> b],
                  pair_response |-> pair_response ]
    /\ ret = "none"

LpPairCall ==
    /\ pc = "call"
    /\ LET r == lp_pair_checks(ctx, "liquid_pooler_config", args.asset_a_denom,
                               args.asset_b_denom, args.lp_cfg, args.pair_response)
       IN /\ ctx' = r.c
          /\ ret' = r.st
    /\ pc' = "returned"
    /\ UNCHANGED <<msg, trace, report, result, lookup, args>>

NextPair == LpPairCall

SpecPair == InitPair /\ [][NextPair]_vars

\* the pair the lookup returned
PoolPair == args.pair_response.pair.asset_infos

AssetDenomsValid ==
    /\ Has(ctx.checks, "liquid_pooler_config", "asset_a_denom: verified")
    /\ Has(ctx.checks, "liquid_pooler_config", "asset_b_denom: verified")

\* C29: asset_a_denom and asset_b_denom are recorded valid only if the
\* configured pair equals the pair of the two parties' native denoms and each
\* configured denom equals the pool's denom at the same position; a configured
\* asset B denom that matches the pool but is the native denom of neither
\* party is recorded as an error.
Cex_C29_PoolAssets ==
    (pc = "returned" /\ ret = "ok") =>
        /\ AssetDenomsValid =>
             /\ {args.lp_cfg.asset_a_denom, args.lp_cfg.asset_b_denom}
                  = {args.asset_a_denom, args.asset_b_denom}
             /\ args.lp_cfg.asset_a_denom = PoolPair[1]
             /\ args.lp_cfg.asset_b_denom = PoolPair[2]
        /\ (/\ args.lp_cfg.asset_b_denom = PoolPair[2]
            /\ args.lp_cfg.asset_b_denom \notin {args.asset_a_denom, args.asset_b_denom})
             => CountPrefix(ctx.errors, "liquid_pooler_config", "asset_b_denom: ") = 1

(***************************************************************************)
(* The records of the two-party share step (validate, lines 65-80)         *)
(***************************************************************************)
\* number of records of `field` under covenant in `map`
ShareRecords(map, field) == CountPrefix(map, "covenant", field \o ": ")

\* C30: the two-party share step always writes exactly two records under key
\* covenant, one for party_a_share and one for party_b_share, both in checks
\* when the shares sum to 1.0 and both in errors otherwise; no field is
\* recorded twice.
Cex_C30_ShareRecords ==
    (pc = "returned" /\ args.fn = "two") =>
        /\ RecordsUnder(ctx.checks, "covenant") + RecordsUnder(ctx.errors, "covenant") = 2
        /\ SumIsOne =>
             /\ ShareRecords(ctx.checks, "party_a_share") = 1
             /\ ShareRecords(ctx.checks, "party_b_share") = 1
        /\ ~SumIsOne =>
             /\ ShareRecords(ctx.errors, "party_a_share") = 1
             /\ ShareRecords(ctx.errors, "party_b_share") = 1

====
